---- MODULE Spec2Model ----
(***************************************************************************)
(* PixelSeek browser add-on: the background registry of detected videos    *)
(* (background.js), its two detection feeds, the notification fan-out to   *)
(* the side-panel UI and the download dispatch.                            *)
(*                                                                         *)
(* Strings are sequences of one-character strings, so that endsWith,       *)
(* startsWith, split, toLowerCase and URL parsing are computed on the      *)
(* characters.  The JavaScript value undefined is the one-element sequence *)
(* Undefined, whose element is not a character.                            *)
(***************************************************************************)
EXTENDS Integers, Sequences, FiniteSets, TLC

VARIABLES
    videoUrlStore,  \* background.js: the Map of detected videos, as the
                    \* sequence of its [key, value] entries in insertion order
    now,            \* what Date.now() returns in the background
    attached,       \* the side panels whose VideoService listens for messages
    inbox,          \* per side panel, the video_detected messages in flight
    unhandled,      \* a promise rejection nobody caught in the background
    pull,           \* per side panel, its get_videos request
    videos,         \* per side panel, videosSubject.value
    downloads,      \* the download_video requests and their platform calls
    lastEvent,      \* the event the last step handled, with its inputs
    dLocator,       \* the locator handed to getFilenameFromUrl on its own
    dName,          \* the name it returned
    dPc,            \* "call" before the call, then "returned" or "raised"
    dom,            \* the video elements of the page a content script runs in
    sent,           \* what that content script has sent, in the order sent
    force,          \* the force_check_videos request of the side panel
    pagePc,         \* "loading" until the content script has run, then "running"
    mutations       \* the mutation records the MutationObserver has not yet handled

bgVars == <<videoUrlStore, now, attached, inbox, unhandled, pull, videos,
            downloads, lastEvent>>
dVars == <<dLocator, dName, dPc>>
pVars == <<dom, sent, force, pagePc, mutations>>
vars == <<videoUrlStore, now, attached, inbox, unhandled, pull, videos,
          downloads, lastEvent, dLocator, dName, dPc, dom, sent, force, pagePc,
          mutations>>

\* ------------------------------------------------------------------ bounds
MaxSegs == 2          \* path segments of a locator handed to the deriver
MaxClock == 1         \* Date.now() ranges over 0..MaxClock
NumTabs == 1          \* browser tabs
NumSubs == 1          \* side panels
MaxInbox == 1         \* video_detected messages in flight to one side panel
MaxDownloads == 1     \* download_video requests over a run
MaxVideos == 2        \* video elements of a page
MaxSent == 8          \* messages and responses a content script sends over a run
MaxBatch == 2         \* mutation records delivered to the observer in one batch
NumPanels == 2        \* side panels open at once when the fan-out is examined

\* --------------------------------------------------------- string helpers
Undefined == <<"undefined">>

\* String.prototype.endsWith
EndsWith(s, suf) ==
    /\ Len(suf) <= Len(s)
    /\ SubSeq(s, Len(s) - Len(suf) + 1, Len(s)) = suf

\* String.prototype.startsWith
StartsWith(s, pre) ==
    /\ Len(pre) <= Len(s)
    /\ SubSeq(s, 1, Len(pre)) = pre

LowerOf(c) == CASE c = "A" -> "a"
                [] c = "M" -> "m"
                [] c = "P" -> "p"
                [] OTHER   -> c

\* String.prototype.toLowerCase
ToLowerCase(s) == [i \in 1..Len(s) |-> LowerOf(s[i])]

\* index of the first occurrence of a character of cs in s at or after
\* position i; Len(s) + 1 when there is none
RECURSIVE FirstOf(_, _, _)
FirstOf(s, cs, i) ==
    IF i > Len(s) THEN Len(s) + 1
    ELSE IF s[i] \in cs THEN i
    ELSE FirstOf(s, cs, i + 1)

\* String.prototype.split with a one-character separator: the pieces of s
\* between the separators, "" included ("".split('/') is [""])
RECURSIVE Split(_, _)
Split(s, sep) ==
    LET i == FirstOf(s, {sep}, 1)
    IN  IF i > Len(s) THEN << s >>
        ELSE << SubSeq(s, 1, i - 1) >> \o Split(SubSeq(s, i + 1, Len(s)), sep)

\* Array.prototype.pop on a non-empty array: its last element
Pop(a) == a[Len(a)]

\* -------------------------------------------------- new URL(url).pathname
Letters == {"a", "b", "c", "d", "e", "g", "h", "i", "l", "m", "o", "p",
            "r", "s", "t", "u", "v", "w", "x", "A", "M", "P"}
Digits == {"3", "4", "8", "9"}
SchemeChars == Letters \cup Digits \cup {"+", "-", "."}

http == <<"h", "t", "t", "p">>
https == <<"h", "t", "t", "p", "s">>
extensionScheme == <<"c", "h", "r", "o", "m", "e", "-", "e", "x", "t", "e", "n", "s",
                     "i", "o", "n", ":", "/", "/">>
SpecialSchemes == {http, https, <<"w", "s">>, <<"w", "s", "s">>, <<"f", "t", "p">>}

\* the path state of the URL parser: "." segments are dropped and ".."
\* segments shorten the path; a dot segment in last position leaves an
\* empty last segment
RECURSIVE PathSegments(_, _, _)
PathSegments(raw, i, acc) ==
    IF i > Len(raw) THEN acc
    ELSE LET seg == raw[i]
             last == (i = Len(raw))
             tail == IF last THEN << <<>> >> ELSE <<>>
         IN  IF seg = <<".", ".">>
             THEN PathSegments(raw, i + 1,
                    (IF acc = <<>> THEN acc ELSE SubSeq(acc, 1, Len(acc) - 1)) \o tail)
             ELSE IF seg = <<".">>
             THEN PathSegments(raw, i + 1, acc \o tail)
             ELSE PathSegments(raw, i + 1, Append(acc, seg))

\* the serialised path: every segment preceded by "/"
RECURSIVE JoinPath(_)
JoinPath(segs) ==
    IF segs = <<>> THEN <<>>
    ELSE <<"/">> \o Head(segs) \o JoinPath(Tail(segs))

\* pathname of the hierarchical path p ("" or a string that starts with "/")
HierPathname(p, special) ==
    IF p = <<>> THEN (IF special THEN <<"/">> ELSE <<>>)
    ELSE JoinPath(PathSegments(Split(SubSeq(p, 2, Len(p)), "/"), 1, <<>>))

RECURSIVE SkipSlashes(_)
SkipSlashes(s) ==
    IF s # <<>> /\ Head(s) = "/" THEN SkipSlashes(Tail(s)) ELSE s

\* a host made of letters, digits, "." and "-", with an optional port
ValidAuthority(a) ==
    LET c == FirstOf(a, {":"}, 1)
        host == SubSeq(a, 1, c - 1)
        port == SubSeq(a, c + 1, Len(a))
    IN  /\ \A i \in 1..Len(host) : host[i] \in Letters \cup Digits \cup {".", "-"}
        /\ \A i \in 1..Len(port) : port[i] \in Digits

\* new URL(url) without a base, for strings over the characters above
\* (no whitespace, backslash, "@", "%" or brackets; hosts are domain
\* names): threw tells whether the constructor throws a TypeError,
\* pathname is the pathname property of the URL
NewURL(url) ==
    LET Fail == [threw |-> TRUE, pathname |-> <<>>]
        colon == FirstOf(url, {":"}, 1)
        scheme == SubSeq(url, 1, colon - 1)
        rest == SubSeq(url, colon + 1, Len(url))
        special == ToLowerCase(scheme) \in SpecialSchemes
        \* what follows the authority, or the whole rest without one
        Hier(s) ==
            LET e == FirstOf(s, {"?", "#"}, 1)
            IN  HierPathname(SubSeq(s, 1, e - 1), special)
        WithAuthority(s) ==
            LET e == FirstOf(s, {"/", "?", "#"}, 1)
                auth == SubSeq(s, 1, e - 1)
            IN  IF (special /\ (e = 1 \/ auth[1] = ":")) \/ ~ValidAuthority(auth)
                THEN Fail
                ELSE [threw |-> FALSE, pathname |-> Hier(SubSeq(s, e, Len(s)))]
    IN  IF url = Undefined \/ colon > Len(url) \/ scheme = <<>> THEN Fail
        ELSE IF scheme[1] \notin Letters
                \/ \E i \in 1..Len(scheme) : scheme[i] \notin SchemeChars THEN Fail
        ELSE IF special THEN WithAuthority(SkipSlashes(rest))
        ELSE IF StartsWith(rest, <<"/", "/">>)
             THEN WithAuthority(SubSeq(rest, 3, Len(rest)))
        ELSE IF StartsWith(rest, <<"/">>)
             THEN [threw |-> FALSE, pathname |-> Hier(rest)]
        ELSE [threw |-> FALSE,
              pathname |-> SubSeq(rest, 1, FirstOf(rest, {"?", "#"}, 1) - 1)]

\* ------------------------------------------------------------ background.js
mp4 == <<".", "m", "p", "4">>
webm == <<".", "w", "e", "b", "m">>
m3u8 == <<".", "m", "3", "u", "8">>
ts == <<".", "t", "s">>
VIDEO_EXTENSIONS == {mp4, webm, m3u8, ts}

video == <<"v", "i", "d", "e", "o">>

\* what a call leaves in place of its value when it throws
Raised == <<"TypeError">>

\* getFilenameFromUrl without its try and catch
getFilenameFromUrl_uncaught(url) ==
    LET urlObj == NewURL(url)
    IN  IF urlObj.threw THEN Raised
        ELSE LET last == Pop(Split(urlObj.pathname, "/"))
                 filename == IF last = <<>> THEN video ELSE last
                 cleaned == Split(filename, "?")[1]
             IN  IF ~ \E ext \in VIDEO_EXTENSIONS : EndsWith(cleaned, ext)
                 THEN cleaned \o mp4
                 ELSE cleaned

\* getFilenameFromUrl that takes the first piece of the path for the last
getFilenameFromUrl_shift(url) ==
    LET urlObj == NewURL(url)
    IN  IF urlObj.threw THEN video \o mp4
        ELSE LET first == Head(Split(urlObj.pathname, "/"))
                 filename == IF first = <<>> THEN video ELSE first
                 cleaned == Split(filename, "?")[1]
             IN  IF ~ \E ext \in VIDEO_EXTENSIONS : EndsWith(cleaned, ext)
                 THEN cleaned \o mp4
                 ELSE cleaned

\* getFilenameFromUrl(url)
getFilenameFromUrl(url) ==
    LET urlObj == NewURL(url)
    IN  IF urlObj.threw THEN video \o mp4
        ELSE LET last == Pop(Split(urlObj.pathname, "/"))
                 filename == IF last = <<>> THEN video ELSE last
                 cleaned == Split(filename, "?")[1]
             IN  IF ~ \E ext \in VIDEO_EXTENSIONS : EndsWith(cleaned, ext)
                 THEN cleaned \o mp4
                 ELSE cleaned

\* Map.prototype.has, set and values on the entry sequence of a Map: set
\* replaces the value of a key that is present and keeps its position, and
\* appends an entry for a new key
MapHas(m, k) == \E i \in 1..Len(m) : m[i].key = k

\* set that appends an entry whether or not the key is present
MapSet_append(m, k, v) == Append(m, [key |-> k, value |-> v])

\* set that spreads the new value over the value already stored
MapSet_merge(m, k, v) ==
    LET Merge(old) == [f \in DOMAIN old \cup DOMAIN v |-> IF f \in DOMAIN v THEN v[f] ELSE old[f]]
    IN  IF MapHas(m, k)
        THEN [i \in 1..Len(m) |->
                 IF m[i].key = k THEN [key |-> k, value |-> Merge(m[i].value)] ELSE m[i]]
        ELSE Append(m, [key |-> k, value |-> v])

\* set that leaves alone the value of a key that is present
MapSet_keep(m, k, v) ==
    IF MapHas(m, k) THEN m ELSE Append(m, [key |-> k, value |-> v])

MapSet(m, k, v) ==
    IF MapHas(m, k)
    THEN [i \in 1..Len(m) |-> IF m[i].key = k THEN [key |-> k, value |-> v] ELSE m[i]]
    ELSE Append(m, [key |-> k, value |-> v])

MapValues(m) == [i \in 1..Len(m) |-> m[i].value]

\* a string operand that && and || take for false
Falsy(v) == v = Undefined \/ v = <<>>

\* the values a Map holds under key k, in entry order
ValuesFor(m, k) ==
    LET RECURSIVE Pick(_)
        Pick(i) == IF i > Len(m) THEN <<>>
                   ELSE (IF m[i].key = k THEN << m[i].value >> ELSE <<>>) \o Pick(i + 1)
    IN  Pick(1)

\* chrome.runtime.sendMessage in the background reaches the listener of
\* every open side panel; with no listener the promise it returns rejects
\* ("Receiving end does not exist")
SendMessage(message) ==
    [s \in DOMAIN inbox |-> IF s \in attached THEN Append(inbox[s], message) ELSE inbox[s]]

\* notifyVideoDetected without the catch
notifyVideoDetected_uncaught(videoInfo) ==
    /\ \A s \in attached : Len(inbox[s]) < MaxInbox
    /\ inbox' = SendMessage([action |-> "video_detected", video |-> videoInfo])
    /\ unhandled' = (unhandled \/ attached = {})

\* notifyVideoDetected that stays silent about a URL the store already held
notifyVideoDetected_onlyNew(videoInfo) ==
    /\ \A s \in attached : Len(inbox[s]) < MaxInbox
    /\ inbox' = IF Len(ValuesFor(videoUrlStore, videoInfo.url)) > 0
                THEN inbox
                ELSE SendMessage([action |-> "video_detected", video |-> videoInfo])
    /\ unhandled' = unhandled

\* notifyVideoDetected(videoInfo): the rejection is caught and dropped
\* (at most MaxInbox messages are in flight to one side panel)
notifyVideoDetected(videoInfo) ==
    /\ \A s \in attached : Len(inbox[s]) < MaxInbox
    /\ inbox' = SendMessage([action |-> "video_detected", video |-> videoInfo])
    /\ unhandled' = unhandled

\* the test made on the URL requested instead of the initiator
isExtensionRequest_url(details) ==
    ~Falsy(details.url) /\ StartsWith(details.url, extensionScheme)

\* the request comes from an extension page
isExtensionRequest(details) ==
    ~Falsy(details.initiator) /\ StartsWith(details.initiator, extensionScheme)

\* the test made on the URL as it is written
hasVideoExtension_cased(details) ==
    \E ext \in VIDEO_EXTENSIONS : EndsWith(details.url, ext)

\* the lower-cased URL ends with a video file extension
hasVideoExtension(details) ==
    LET url == ToLowerCase(details.url)
    IN  \E ext \in VIDEO_EXTENSIONS : EndsWith(url, ext)

\* an onBeforeRequest listener that lets the request pass unrecorded while
\* a download is awaited
OnBeforeRequest_busy(details) ==
    /\ lastEvent' = [kind |-> "onBeforeRequest", details |-> details,
                     prior |-> ValuesFor(videoUrlStore, details.url)]
    /\ IF isExtensionRequest(details)
          \/ \E i \in 1..Len(downloads) : downloads[i].state = "pending"
       THEN UNCHANGED <<videoUrlStore, inbox, unhandled>>
       ELSE IF hasVideoExtension(details) \/ details.type = "media"
            THEN LET videoInfo == [url |-> details.url,
                                   tabId |-> details.tabId,
                                   timestamp |-> now,
                                   type |-> details.type,
                                   filename |-> getFilenameFromUrl(details.url)]
                 IN  /\ videoUrlStore' = MapSet(videoUrlStore, details.url, videoInfo)
                     /\ notifyVideoDetected(videoInfo)
            ELSE UNCHANGED <<videoUrlStore, inbox, unhandled>>
    /\ UNCHANGED <<now, attached, pull, videos, downloads, dVars, pVars>>

\* an onBeforeRequest listener that names the file after the lower-cased URL
OnBeforeRequest_lowered(details) ==
    /\ lastEvent' = [kind |-> "onBeforeRequest", details |-> details,
                     prior |-> ValuesFor(videoUrlStore, details.url)]
    /\ IF isExtensionRequest(details)
       THEN UNCHANGED <<videoUrlStore, inbox, unhandled>>
       ELSE IF hasVideoExtension(details) \/ details.type = "media"
            THEN LET videoInfo == [url |-> details.url,
                                   tabId |-> details.tabId,
                                   timestamp |-> now,
                                   type |-> details.type,
                                   filename |-> getFilenameFromUrl(ToLowerCase(details.url))]
                 IN  /\ videoUrlStore' = MapSet(videoUrlStore, details.url, videoInfo)
                     /\ notifyVideoDetected(videoInfo)
            ELSE UNCHANGED <<videoUrlStore, inbox, unhandled>>
    /\ UNCHANGED <<now, attached, pull, videos, downloads, dVars, pVars>>

\* the chrome.webRequest.onBeforeRequest listener
OnBeforeRequest(details) ==
    /\ lastEvent' = [kind |-> "onBeforeRequest", details |-> details,
                     prior |-> ValuesFor(videoUrlStore, details.url)]
    /\ IF isExtensionRequest(details)
       THEN UNCHANGED <<videoUrlStore, inbox, unhandled>>
       ELSE IF hasVideoExtension(details) \/ details.type = "media"
            THEN LET videoInfo == [url |-> details.url,
                                   tabId |-> details.tabId,
                                   timestamp |-> now,
                                   type |-> details.type,
                                   filename |-> getFilenameFromUrl(details.url)]
                 IN  /\ videoUrlStore' = MapSet(videoUrlStore, details.url, videoInfo)
                     /\ notifyVideoDetected(videoInfo)
            ELSE UNCHANGED <<videoUrlStore, inbox, unhandled>>
    /\ UNCHANGED <<now, attached, pull, videos, downloads, dVars, pVars>>

\* a video_detected_in_page branch that types its record as a media request
OnVideoDetectedInPage_media(message, tab) ==
    /\ lastEvent' = [kind |-> "video_detected_in_page", message |-> message, tab |-> tab,
                     prior |-> ValuesFor(videoUrlStore, message.url)]
    /\ LET videoInfo == [url |-> message.url,
                         tabId |-> tab,
                         timestamp |-> now,
                         type |-> "media",
                         filename |-> getFilenameFromUrl(message.url),
                         duration |-> message.duration,
                         dimensions |-> message.dimensions]
       IN  /\ videoUrlStore' = MapSet(videoUrlStore, message.url, videoInfo)
           /\ notifyVideoDetected(videoInfo)
    /\ UNCHANGED <<now, attached, pull, videos, downloads, dVars, pVars>>

\* the chrome.runtime.onMessage listener, action video_detected_in_page,
\* sent by the content script of tab
OnVideoDetectedInPage(message, tab) ==
    /\ lastEvent' = [kind |-> "video_detected_in_page", message |-> message, tab |-> tab,
                     prior |-> ValuesFor(videoUrlStore, message.url)]
    /\ LET videoInfo == [url |-> message.url,
                         tabId |-> tab,
                         timestamp |-> now,
                         type |-> "content_script",
                         filename |-> getFilenameFromUrl(message.url),
                         duration |-> message.duration,
                         dimensions |-> message.dimensions]
       IN  /\ videoUrlStore' = MapSet(videoUrlStore, message.url, videoInfo)
           /\ notifyVideoDetected(videoInfo)
    /\ UNCHANGED <<now, attached, pull, videos, downloads, dVars, pVars>>

\* a get_videos branch that hands the values over and clears the Map
OnGetVideos_drain(s) ==
    /\ pull[s].state = "sent"
    /\ pull' = [pull EXCEPT ![s] = [state |-> "answered", videos |-> MapValues(videoUrlStore)]]
    /\ videoUrlStore' = <<>>
    /\ lastEvent' = [kind |-> "get_videos", sub |-> s]
    /\ UNCHANGED <<now, attached, inbox, unhandled, videos, downloads, dVars, pVars>>

\* the chrome.runtime.onMessage listener, action get_videos, sent by side
\* panel s: the response carries a copy of the values
OnGetVideos(s) ==
    /\ pull[s].state = "sent"
    /\ pull' = [pull EXCEPT ![s] = [state |-> "answered", videos |-> MapValues(videoUrlStore)]]
    /\ lastEvent' = [kind |-> "get_videos", sub |-> s]
    /\ UNCHANGED <<videoUrlStore, now, attached, inbox, unhandled, videos, downloads, dVars, pVars>>

\* message.filename ?? getFilenameFromUrl(message.url)
effectiveFilename_nullish(message) ==
    IF message.filename = Undefined THEN getFilenameFromUrl(message.url) ELSE message.filename

\* the derived name whatever the message suggests
effectiveFilename_derived(message) == getFilenameFromUrl(message.url)

\* message.filename || getFilenameFromUrl(message.url)
effectiveFilename(message) ==
    IF Falsy(message.filename) THEN getFilenameFromUrl(message.url) ELSE message.filename

\* a download_video branch that asks where to save only when the message
\* a download_video branch that refuses a URL the store does not hold
OnDownloadVideo_known(message) ==
    /\ Len(downloads) < MaxDownloads
    /\ downloads' = Append(downloads,
           IF MapHas(videoUrlStore, message.url)
           THEN [message |-> message,
                 options |-> [url |-> message.url,
                              filename |-> effectiveFilename(message),
                              saveAs |-> TRUE],
                 attempts |-> 1,
                 state |-> "pending"]
           ELSE [message |-> message,
                 options |-> [url |-> message.url,
                              filename |-> effectiveFilename(message),
                              saveAs |-> TRUE],
                 attempts |-> 0,
                 state |-> "responded",
                 response |-> [success |-> FALSE, error |-> "Unknown video"]])
    /\ lastEvent' = [kind |-> "download_video", message |-> message]
    /\ UNCHANGED <<videoUrlStore, now, attached, inbox, unhandled, pull, videos, dVars, pVars>>

\* suggests no name
OnDownloadVideo_silent(message) ==
    /\ Len(downloads) < MaxDownloads
    /\ downloads' = Append(downloads,
           [message |-> message,
            options |-> [url |-> message.url,
                         filename |-> effectiveFilename(message),
                         saveAs |-> Falsy(message.filename)],
            attempts |-> 1,
            state |-> "pending"])
    /\ lastEvent' = [kind |-> "download_video", message |-> message]
    /\ UNCHANGED <<videoUrlStore, now, attached, inbox, unhandled, pull, videos, dVars, pVars>>

\* the chrome.runtime.onMessage listener, action download_video: the call
\* of chrome.downloads.download stays pending
OnDownloadVideo(message) ==
    /\ Len(downloads) < MaxDownloads
    /\ downloads' = Append(downloads,
           [message |-> message,
            options |-> [url |-> message.url,
                         filename |-> effectiveFilename(message),
                         saveAs |-> TRUE],
            attempts |-> 1,
            state |-> "pending"])
    /\ lastEvent' = [kind |-> "download_video", message |-> message]
    /\ UNCHANGED <<videoUrlStore, now, attached, inbox, unhandled, pull, videos, dVars, pVars>>

\* a .then that also deletes the entry of the URL downloaded
DownloadResolved_evict(i) ==
    /\ downloads[i].state = "pending"
    /\ downloads' = [downloads EXCEPT ![i] =
           [message |-> @.message, options |-> @.options, attempts |-> @.attempts,
            state |-> "responded",
            response |-> [success |-> TRUE, downloadId |-> i]]]
    /\ videoUrlStore' = SelectSeq(videoUrlStore, LAMBDA e : e.key # downloads[i].options.url)
    /\ lastEvent' = [kind |-> "download_resolved", index |-> i]
    /\ UNCHANGED <<now, attached, inbox, unhandled, pull, videos, dVars, pVars>>

\* the promise of chrome.downloads.download resolves: .then sends the response
DownloadResolved(i) ==
    /\ downloads[i].state = "pending"
    /\ downloads' = [downloads EXCEPT ![i] =
           [message |-> @.message, options |-> @.options, attempts |-> @.attempts,
            state |-> "responded",
            response |-> [success |-> TRUE, downloadId |-> i]]]
    /\ lastEvent' = [kind |-> "download_resolved", index |-> i]
    /\ UNCHANGED <<videoUrlStore, now, attached, inbox, unhandled, pull, videos, dVars, pVars>>

\* a .catch that logs the error and answers nothing
DownloadRejected_mute(i, error) ==
    /\ downloads[i].state = "pending"
    /\ downloads' = [downloads EXCEPT ![i] =
           [message |-> @.message, options |-> @.options, attempts |-> @.attempts,
            state |-> "responded"]]
    /\ lastEvent' = [kind |-> "download_rejected", index |-> i, error |-> error]
    /\ UNCHANGED <<videoUrlStore, now, attached, inbox, unhandled, pull, videos, dVars, pVars>>

\* a .catch that calls chrome.downloads.download once more before it gives up
DownloadRejected_retry(i, error) ==
    /\ downloads[i].state = "pending"
    /\ downloads' = [downloads EXCEPT ![i] =
           IF @.attempts < 2
           THEN [message |-> @.message, options |-> @.options, attempts |-> @.attempts + 1,
                 state |-> "pending"]
           ELSE [message |-> @.message, options |-> @.options, attempts |-> @.attempts,
                 state |-> "responded",
                 response |-> [success |-> FALSE, error |-> error.message]]]
    /\ lastEvent' = [kind |-> "download_rejected", index |-> i, error |-> error]
    /\ UNCHANGED <<videoUrlStore, now, attached, inbox, unhandled, pull, videos, dVars, pVars>>

\* the promise rejects with error: .catch sends the response
DownloadRejected(i, error) ==
    /\ downloads[i].state = "pending"
    /\ downloads' = [downloads EXCEPT ![i] =
           [message |-> @.message, options |-> @.options, attempts |-> @.attempts,
            state |-> "responded",
            response |-> [success |-> FALSE, error |-> error.message]]]
    /\ lastEvent' = [kind |-> "download_rejected", index |-> i, error |-> error]
    /\ UNCHANGED <<videoUrlStore, now, attached, inbox, unhandled, pull, videos, dVars, pVars>>

\* an onInstalled listener that only logs
OnInstalled_logOnly ==
    /\ lastEvent' = [kind |-> "onInstalled", size |-> Len(videoUrlStore)]
    /\ UNCHANGED <<videoUrlStore, now, attached, inbox, unhandled, pull, videos, downloads, dVars, pVars>>

\* an onInstalled listener that spares the entry written last
OnInstalled_spareLast ==
    /\ videoUrlStore' = IF videoUrlStore = <<>> THEN <<>>
                        ELSE << videoUrlStore[Len(videoUrlStore)] >>
    /\ lastEvent' = [kind |-> "onInstalled", size |-> Len(videoUrlStore)]
    /\ UNCHANGED <<now, attached, inbox, unhandled, pull, videos, downloads, dVars, pVars>>

\* the chrome.runtime.onInstalled listener
OnInstalled ==
    /\ videoUrlStore' = <<>>
    /\ lastEvent' = [kind |-> "onInstalled", size |-> Len(videoUrlStore)]
    /\ UNCHANGED <<now, attached, inbox, unhandled, pull, videos, downloads, dVars, pVars>>

\* time passes in the background
Tick ==
    /\ now < MaxClock
    /\ now' = now + 1
    /\ lastEvent' = [kind |-> "tick"]
    /\ UNCHANGED <<videoUrlStore, attached, inbox, unhandled, pull, videos, downloads, dVars, pVars>>

\* ------------------------------------------------------- video.service.ts
NoPull == [state |-> "idle", videos |-> <<>>]

\* the constructor of VideoService in a side panel that opens:
\* setupVideoListeners, then loadVideos
Construct(s) ==
    /\ s \notin attached
    /\ attached' = attached \cup {s}
    /\ pull' = [pull EXCEPT ![s] = [state |-> "sent", videos |-> <<>>]]
    /\ lastEvent' = [kind |-> "construct", sub |-> s]
    /\ UNCHANGED <<videoUrlStore, now, inbox, unhandled, videos, downloads, dVars, pVars>>

\* loadVideos, called again by the side bar
LoadVideos(s) ==
    /\ s \in attached
    /\ pull[s].state = "idle"
    /\ pull' = [pull EXCEPT ![s] = [state |-> "sent", videos |-> <<>>]]
    /\ lastEvent' = [kind |-> "loadVideos", sub |-> s]
    /\ UNCHANGED <<videoUrlStore, now, attached, inbox, unhandled, videos, downloads, dVars, pVars>>

\* the callback of loadVideos
LoadVideosCallback(s) ==
    /\ pull[s].state = "answered"
    /\ videos' = [videos EXCEPT ![s] = pull[s].videos]
    /\ pull' = [pull EXCEPT ![s] = NoPull]
    /\ lastEvent' = [kind |-> "loadVideosCallback", sub |-> s]
    /\ UNCHANGED <<videoUrlStore, now, attached, inbox, unhandled, downloads, dVars, pVars>>

\* a listener that appends every video it is told of
VideoDetected_append(s) ==
    /\ s \in attached
    /\ inbox[s] # <<>>
    /\ LET message == Head(inbox[s])
           currentVideos == videos[s]
       IN  /\ IF message.action = "video_detected"
              THEN videos' = [videos EXCEPT ![s] = Append(currentVideos, message.video)]
              ELSE UNCHANGED videos
           /\ inbox' = [inbox EXCEPT ![s] = Tail(inbox[s])]
    /\ lastEvent' = [kind |-> "video_detected", sub |-> s]
    /\ UNCHANGED <<videoUrlStore, now, attached, unhandled, pull, downloads, dVars, pVars>>

\* a listener that puts the video it is told of in the place of the entry
\* with the same URL
VideoDetected_replace(s) ==
    /\ s \in attached
    /\ inbox[s] # <<>>
    /\ LET message == Head(inbox[s])
           currentVideos == videos[s]
       IN  /\ IF message.action = "video_detected"
              THEN IF \E i \in 1..Len(currentVideos) : currentVideos[i].url = message.video.url
                   THEN videos' = [videos EXCEPT ![s] =
                            [i \in 1..Len(currentVideos) |->
                                IF currentVideos[i].url = message.video.url
                                THEN message.video ELSE currentVideos[i]]]
                   ELSE videos' = [videos EXCEPT ![s] = Append(currentVideos, message.video)]
              ELSE UNCHANGED videos
           /\ inbox' = [inbox EXCEPT ![s] = Tail(inbox[s])]
    /\ lastEvent' = [kind |-> "video_detected", sub |-> s]
    /\ UNCHANGED <<videoUrlStore, now, attached, unhandled, pull, downloads, dVars, pVars>>

\* the onMessage listener of setupVideoListeners takes a message
VideoDetected(s) ==
    /\ s \in attached
    /\ inbox[s] # <<>>
    /\ LET message == Head(inbox[s])
           currentVideos == videos[s]
       IN  /\ IF message.action = "video_detected"
                 /\ ~ \E i \in 1..Len(currentVideos) : currentVideos[i].url = message.video.url
              THEN videos' = [videos EXCEPT ![s] = Append(currentVideos, message.video)]
              ELSE UNCHANGED videos
           /\ inbox' = [inbox EXCEPT ![s] = Tail(inbox[s])]
    /\ lastEvent' = [kind |-> "video_detected", sub |-> s]
    /\ UNCHANGED <<videoUrlStore, now, attached, unhandled, pull, downloads, dVars, pVars>>

\* the callback of downloadVideo settles the promise the caller holds
DownloadCallback(i) ==
    /\ downloads[i].state = "responded"
    /\ downloads' = [downloads EXCEPT ![i] =
           [message |-> @.message, options |-> @.options, attempts |-> @.attempts,
            state |-> "settled", response |-> @.response,
            outcome |-> IF @.response.success
                        THEN [settled |-> "resolved", value |-> TRUE]
                        ELSE [settled |-> "rejected",
                              value |-> IF @.response.error = "" THEN "Download failed"
                                        ELSE @.response.error]]]
    /\ lastEvent' = [kind |-> "downloadCallback", index |-> i]
    /\ UNCHANGED <<videoUrlStore, now, attached, inbox, unhandled, pull, videos, dVars, pVars>>

\* the side panel closes: its listener and its pending callbacks are gone
Close(s) ==
    /\ s \in attached
    /\ attached' = attached \ {s}
    /\ inbox' = [inbox EXCEPT ![s] = <<>>]
    /\ pull' = [pull EXCEPT ![s] = NoPull]
    /\ videos' = [videos EXCEPT ![s] = <<>>]
    /\ lastEvent' = [kind |-> "close", sub |-> s]
    /\ UNCHANGED <<videoUrlStore, now, unhandled, downloads, dVars, pVars>>

\* --------------------------------------------------------- video.model.ts
\* the content script of a page.  A video element is a record of its src
\* and currentSrc properties ("" when unset), whether its metadata is
\* loaded, whether it carries the data-pixelseek-listener attribute, the
\* number of loadedmetadata listeners the script has added to it, and the
\* src properties of its source children
Null == [null |-> TRUE]

\* getVideoDetails(video)
getVideoDetails(v) ==
    LET url == IF v.currentSrc # <<>> THEN v.currentSrc ELSE v.src
    IN  IF url = <<>> THEN Null
        ELSE [url |-> url,
              duration |-> IF v.loaded THEN 5 ELSE 0,
              dimensions |-> IF v.loaded THEN [width |-> 640, height |-> 360]
                                         ELSE [width |-> 0, height |-> 0]]

\* the message chrome.runtime.sendMessage is given for details
DetectionOf(details) ==
    [kind |-> "message",
     body |-> [action |-> "video_detected_in_page", url |-> details.url,
               duration |-> details.duration, dimensions |-> details.dimensions]]

\* checkVideosOnPage, first loop: the messages sent for the video elements
RECURSIVE VideoEmissions(_, _)
VideoEmissions(d, i) ==
    IF i > Len(d) THEN <<>>
    ELSE LET details == getVideoDetails(d[i])
         IN  (IF details # Null THEN << DetectionOf(details) >> ELSE <<>>)
                 \o VideoEmissions(d, i + 1)

\* checkVideosOnPage, second loop: the messages sent for the source
\* elements within video elements, in document order
RECURSIVE SourceEmissionsOf(_, _)
SourceEmissionsOf(srcs, j) ==
    IF j > Len(srcs) THEN <<>>
    ELSE (IF srcs[j] # <<>>
          THEN << DetectionOf([url |-> srcs[j], duration |-> 0,
                               dimensions |-> [width |-> 0, height |-> 0]]) >>
          ELSE <<>>) \o SourceEmissionsOf(srcs, j + 1)

RECURSIVE SourceEmissions(_, _)
SourceEmissions(d, i) ==
    IF i > Len(d) THEN <<>>
    ELSE SourceEmissionsOf(d[i].sources, 1) \o SourceEmissions(d, i + 1)

\* checkVideosOnPage that stops at the first video element without a URL
checkVideosOnPage_stop(d) ==
    LET RECURSIVE Stop(_)
        Stop(i) ==
            IF i > Len(d) \/ getVideoDetails(d[i]) = Null THEN <<>>
            ELSE << DetectionOf(getVideoDetails(d[i])) >> \o Stop(i + 1)
    IN
    [emitted |-> Stop(1) \o SourceEmissions(d, 1),
     dom |-> [i \in 1..Len(d) |->
                [d[i] EXCEPT !.tagged = TRUE,
                             !.listeners = IF d[i].tagged THEN @ ELSE @ + 1]]]

\* checkVideosOnPage that adds its listener whether or not the element
\* carries the attribute
checkVideosOnPage_relisten(d) ==
    [emitted |-> VideoEmissions(d, 1) \o SourceEmissions(d, 1),
     dom |-> [i \in 1..Len(d) |->
                [d[i] EXCEPT !.tagged = TRUE, !.listeners = @ + 1]]]

\* checkVideosOnPage(): what it sends and the document it leaves, every
\* video element tagged and a loadedmetadata listener added to those that
\* were not
checkVideosOnPage(d) ==
    [emitted |-> VideoEmissions(d, 1) \o SourceEmissions(d, 1),
     dom |-> [i \in 1..Len(d) |->
                [d[i] EXCEPT !.tagged = TRUE,
                             !.listeners = IF d[i].tagged THEN @ ELSE @ + 1]]]

\* the content script runs in a page that has loaded: the initial check
ContentScriptLoads ==
    /\ pagePc = "loading"
    /\ LET scan == checkVideosOnPage(dom)
       IN  /\ sent' = sent \o scan.emitted
           /\ dom' = scan.dom
    /\ pagePc' = "running"
    /\ lastEvent' = [kind |-> "contentScript"]
    /\ UNCHANGED <<videoUrlStore, now, attached, inbox, unhandled, pull, videos, downloads,
                   force, mutations, dVars>>

\* a timer whose callback checks nothing
IntervalFires_idle ==
    /\ pagePc = "running"
    /\ mutations = <<>>
    /\ lastEvent' = [kind |-> "interval"]
    /\ UNCHANGED <<videoUrlStore, now, attached, inbox, unhandled, pull, videos, downloads,
                   dom, sent, force, pagePc, mutations, dVars>>

\* the callback of setInterval(checkVideosOnPage, 5000); like every task of
\* the page it starts after the observer was handed the pending records
IntervalFires ==
    /\ pagePc = "running"
    /\ mutations = <<>>
    /\ LET scan == checkVideosOnPage(dom)
       IN  /\ Len(sent) + Len(scan.emitted) <= MaxSent
           /\ sent' = sent \o scan.emitted
           /\ dom' = scan.dom
    /\ lastEvent' = [kind |-> "interval"]
    /\ UNCHANGED <<videoUrlStore, now, attached, inbox, unhandled, pull, videos, downloads,
                   force, pagePc, mutations, dVars>>

\* the metadata of video element i is loaded: every loadedmetadata
\* listener added to it runs
LoadedMetadata(i) ==
    /\ pagePc = "running"
    /\ mutations = <<>>
    /\ ~dom[i].loaded
    /\ getVideoDetails(dom[i]) # Null
    /\ dom' = [dom EXCEPT ![i].loaded = TRUE]
    /\ LET updatedDetails == getVideoDetails(dom'[i])
           emitted == [k \in 1..dom[i].listeners |-> DetectionOf(updatedDetails)]
       IN  /\ Len(sent) + Len(emitted) <= MaxSent
           /\ sent' = sent \o emitted
    /\ lastEvent' = [kind |-> "loadedmetadata", index |-> i]
    /\ UNCHANGED <<videoUrlStore, now, attached, inbox, unhandled, pull, videos, downloads,
                   force, pagePc, mutations, dVars>>

\* the nodes a page adds, as the observer sees them: whether the node is an
\* HTMLElement, its tagName, and whether querySelector('video') finds a
\* video element within it
videoNode == [element |-> TRUE, tagName |-> "VIDEO", containsVideo |-> FALSE]
wrapperNode == [element |-> TRUE, tagName |-> "DIV", containsVideo |-> TRUE]
sourceNode == [element |-> TRUE, tagName |-> "SOURCE", containsVideo |-> FALSE]
divNode == [element |-> TRUE, tagName |-> "DIV", containsVideo |-> FALSE]
textNode == [element |-> FALSE, tagName |-> "#text", containsVideo |-> FALSE]

ChildListRecord(node, parent) ==
    [type |-> "childList", addedNodes |-> << node >>, target |-> parent,
     attributeName |-> "null"]
AttributesRecord(target) ==
    [type |-> "attributes", addedNodes |-> <<>>, target |-> target, attributeName |-> "src"]

\* the page adds a video element, on its own or within a new div
AddVideoNode(v, node) ==
    /\ pagePc = "running"
    /\ Len(dom) < MaxVideos
    /\ Len(mutations) < MaxBatch
    /\ dom' = Append(dom, v)
    /\ mutations' = Append(mutations, ChildListRecord(node, "BODY"))
    /\ lastEvent' = [kind |-> "addVideo"]
    /\ UNCHANGED <<videoUrlStore, now, attached, inbox, unhandled, pull, videos, downloads,
                   sent, force, pagePc, dVars>>

\* the page adds a source element with src u to video element i
AddSourceNode(i, u) ==
    /\ pagePc = "running"
    /\ Len(dom[i].sources) < 2
    /\ Len(mutations) < MaxBatch
    /\ dom' = [dom EXCEPT ![i].sources = Append(@, u)]
    /\ mutations' = Append(mutations, ChildListRecord(sourceNode, "VIDEO"))
    /\ lastEvent' = [kind |-> "addSource", index |-> i]
    /\ UNCHANGED <<videoUrlStore, now, attached, inbox, unhandled, pull, videos, downloads,
                   sent, force, pagePc, dVars>>

\* the page adds a node that holds no video element
AddOtherNode(node) ==
    /\ pagePc = "running"
    /\ Len(mutations) < MaxBatch
    /\ mutations' = Append(mutations, ChildListRecord(node, "BODY"))
    /\ lastEvent' = [kind |-> "addOther"]
    /\ UNCHANGED <<videoUrlStore, now, attached, inbox, unhandled, pull, videos, downloads,
                   dom, sent, force, pagePc, dVars>>

\* the page sets the src attribute of video element i, which had none
SetSrc(i, u) ==
    /\ pagePc = "running"
    /\ dom[i].src = <<>>
    /\ Len(mutations) < MaxBatch
    /\ dom' = [dom EXCEPT ![i].src = u, ![i].currentSrc = u, ![i].loaded = FALSE]
    /\ mutations' = Append(mutations, AttributesRecord("VIDEO"))
    /\ lastEvent' = [kind |-> "setSrc", index |-> i]
    /\ UNCHANGED <<videoUrlStore, now, attached, inbox, unhandled, pull, videos, downloads,
                   sent, force, pagePc, dVars>>

\* the browser selects the first source child with a src for video element
\* i, which has no src of its own: currentSrc changes, no attribute does
SourceSelected(i) ==
    /\ pagePc = "running"
    /\ dom[i].src = <<>>
    /\ dom[i].currentSrc = <<>>
    /\ \E j \in 1..Len(dom[i].sources) :
          /\ dom[i].sources[j] # <<>>
          /\ \A k \in 1..(j - 1) : dom[i].sources[k] = <<>>
          /\ dom' = [dom EXCEPT ![i].currentSrc = dom[i].sources[j]]
    /\ lastEvent' = [kind |-> "sourceSelected", index |-> i]
    /\ UNCHANGED <<videoUrlStore, now, attached, inbox, unhandled, pull, videos, downloads,
                   sent, force, pagePc, mutations, dVars>>

\* a callback that looks at the nodes added only
shouldCheck_childOnly(batch) ==
    \E k \in 1..Len(batch) :
        \E n \in 1..Len(batch[k].addedNodes) :
            LET node == batch[k].addedNodes[n]
            IN  node.element /\ (node.tagName = "VIDEO" \/ node.containsVideo)

\* the MutationObserver callback: whether the batch makes it check
shouldCheck(batch) ==
    \E k \in 1..Len(batch) :
        \/ \E n \in 1..Len(batch[k].addedNodes) :
              LET node == batch[k].addedNodes[n]
              IN  node.element /\ (node.tagName = "VIDEO" \/ node.containsVideo)
        \/ /\ batch[k].type = "attributes"
           /\ batch[k].target = "VIDEO"
           /\ batch[k].attributeName = "src"

\* the MutationObserver callback is handed the pending records
ObserverCallback ==
    /\ mutations # <<>>
    /\ IF shouldCheck(mutations)
       THEN LET scan == checkVideosOnPage(dom)
            IN  /\ Len(sent) + Len(scan.emitted) <= MaxSent
                /\ sent' = sent \o scan.emitted
                /\ dom' = scan.dom
                /\ lastEvent' = [kind |-> "mutation", batch |-> mutations]
       ELSE /\ UNCHANGED <<sent, dom>>
            /\ lastEvent' = [kind |-> "mutationsIgnored", batch |-> mutations]
    /\ mutations' = <<>>
    /\ UNCHANGED <<videoUrlStore, now, attached, inbox, unhandled, pull, videos, downloads,
                   force, pagePc, dVars>>

\* chrome.runtime.sendMessage of the content script arrives: the oldest
\* message it has sent is handed to the onMessage listener of the
\* background, which runs its video_detected_in_page branch for the tab
Deliver(tab) ==
    /\ sent # <<>>
    /\ Head(sent).kind = "message"
    /\ sent' = Tail(sent)
    /\ LET message == Head(sent).body
           videoInfo == [url |-> message.url,
                         tabId |-> tab,
                         timestamp |-> now,
                         type |-> "content_script",
                         filename |-> getFilenameFromUrl(message.url),
                         duration |-> message.duration,
                         dimensions |-> message.dimensions]
       IN  /\ lastEvent' = [kind |-> "video_detected_in_page", message |-> message,
                            tab |-> tab, prior |-> ValuesFor(videoUrlStore, message.url)]
           /\ videoUrlStore' = MapSet(videoUrlStore, message.url, videoInfo)
           /\ notifyVideoDetected(videoInfo)
    /\ UNCHANGED <<now, attached, pull, videos, downloads, dom, force, pagePc, mutations,
                   dVars>>

\* forceCheckVideos of the side panel: chrome.tabs.sendMessage to the
\* active tab
ForceCheckVideos ==
    /\ pagePc = "running"
    /\ force = "none"
    /\ force' = "sent"
    /\ lastEvent' = [kind |-> "forceCheckVideos"]
    /\ UNCHANGED <<videoUrlStore, now, attached, inbox, unhandled, pull, videos, downloads,
                   dom, sent, pagePc, mutations, dVars>>

\* the chrome.runtime.onMessage listener of the content script, action
\* force_check_videos: checkVideosOnPage, then sendResponse
OnForceCheckVideos ==
    /\ force = "sent"
    /\ mutations = <<>>
    /\ LET scan == checkVideosOnPage(dom)
           response == [kind |-> "response", body |-> [status |-> "checked"]]
       IN  /\ Len(sent) + Len(scan.emitted) + 1 <= MaxSent
           /\ sent' = (sent \o scan.emitted) \o << response >>
           /\ dom' = scan.dom
    /\ force' = "answered"
    /\ lastEvent' = [kind |-> "force_check_videos", before |-> Len(sent), page |-> dom]
    /\ UNCHANGED <<videoUrlStore, now, attached, inbox, unhandled, pull, videos, downloads,
                   pagePc, mutations, dVars>>

\* the callback of chrome.tabs.sendMessage in forceCheckVideos
ForceCheckCallback ==
    /\ force = "answered"
    /\ force' = "none"
    /\ lastEvent' = [kind |-> "forceCheckCallback"]
    /\ UNCHANGED <<videoUrlStore, now, attached, inbox, unhandled, pull, videos, downloads,
                   dom, sent, pagePc, mutations, dVars>>

\* ------------------------------------------------- the inputs of the events
Subs == 1..NumSubs
TabIds == 1..NumTabs

siteOrigin == <<"h", "t", "t", "p", "s", ":", "/", "/", "x", ".", "t", "e", "s", "t">>
selfOrigin == extensionScheme \o <<"p", "i", "x", "e", "l", "s", "e", "e", "k">>

streamM3u8 == siteOrigin \o <<"/", "s", "t", "r", "e", "a", "m", ".", "m", "3", "u", "8">>
pageHtml == siteOrigin \o <<"/", "p", "a", "g", "e", ".", "h", "t", "m", "l">>
upperMp4 == siteOrigin \o <<"/", "A", ".", "M", "P", "4">>
Locators == {streamM3u8, pageHtml}

\* the initiator of a request: absent, a web page, a page of the add-on
Initiators == {Undefined, siteOrigin, selfOrigin}
ResourceTypes == {"media", "xmlhttprequest"}
RequestDetails ==
    [url : Locators, tabId : TabIds, type : ResourceTypes, initiator : Initiators]

\* what getVideoDetails reports before and after the metadata has loaded
VideoDetails == { [duration |-> 0, dimensions |-> [width |-> 0, height |-> 0]],
                  [duration |-> 5, dimensions |-> [width |-> 640, height |-> 360]] }
DetectedMessages ==
    { [action |-> "video_detected_in_page", url |-> u,
       duration |-> d.duration, dimensions |-> d.dimensions] :
        u \in Locators, d \in VideoDetails }

myMp4 == <<"m", "y", ".", "m", "p", "4">>
backRef == <<".", ".", "/", "x", ".", "m", "p", "4">>
SuggestedNames == {Undefined, <<>>, myMp4, backRef}
DownloadMessages ==
    [action : {"download_video"}, url : Locators, filename : SuggestedNames]

\* the errors chrome.downloads.download rejects with
invalidFilename == [message |-> "Invalid filename"]
canceledByUser == [message |-> "Download canceled by the user"]
DownloadErrors == {invalidFilename, canceledByUser}

Chars(prefix, segs, query, frag) == prefix \o JoinPath(segs) \o query \o frag

Prefixes == { <<>>,
              siteOrigin,
              <<"x", ".", "t", "e", "s", "t">>,
              <<"b", "l", "o", "b", ":">>,
              <<"d", "a", "t", "a", ":", "v">> }
SegNames == { <<>>,
              <<"a">>,
              <<"c", "l", "i", "p">>,
              <<"c", "l", "i", "p", ".", "m", "p", "4">>,
              <<"A", ".", "M", "P", "4">>,
              <<"s", ".", "m", "3", "u", "8">>,
              <<"a", ".", "w", "e", "b", "m">>,
              <<"s", "e", "g", ".", "t", "s">>,
              <<".", ".">> }
Queries == { <<>>,
             <<"?", "t", "o", "k", "e", "n", "=", "9">>,
             <<"?", "v", "=", "/", "x", ".", "t", "s">> }
Frags == { <<>>, <<"#", "/", "a", ".", "t", "s">> }

RECURSIVE SeqsUpTo(_, _)
SeqsUpTo(S, n) ==
    IF n = 0 THEN { <<>> }
    ELSE LET shorter == SeqsUpTo(S, n - 1)
         IN  shorter \cup { Append(q, e) : q \in shorter, e \in S }

DeriveInputs ==
    { Chars(p, segs, q, f) :
        p \in Prefixes, segs \in SeqsUpTo(SegNames, MaxSegs), q \in Queries, f \in Frags }

\* the requests of one page: every one-segment path, with and without a query
InterceptLocators ==
    Locators \cup {upperMp4}
        \cup { Chars(siteOrigin, <<seg>>, q, <<>>) : seg \in SegNames, q \in Queries }
InterceptRequests ==
    [url : InterceptLocators, tabId : TabIds, type : ResourceTypes, initiator : Initiators]

\* ------------------------------------------------------------ the add-on
InitBg ==
    /\ videoUrlStore = <<>>
    /\ now = 0
    /\ attached = {}
    /\ inbox = [s \in Subs |-> <<>>]
    /\ unhandled = FALSE
    /\ pull = [s \in Subs |-> NoPull]
    /\ videos = [s \in Subs |-> <<>>]
    /\ downloads = <<>>
    /\ lastEvent = [kind |-> "start"]

InitD ==
    /\ dLocator = <<>>
    /\ dName = <<>>
    /\ dPc = "idle"

\* no page is open
InitP ==
    /\ dom = <<>>
    /\ sent = <<>>
    /\ force = "none"
    /\ pagePc = "idle"
    /\ mutations = <<>>

Init == InitBg /\ InitD /\ InitP

\* the registry owner with its two feeds and the side panels that listen
Next ==
    \/ \E details \in RequestDetails : OnBeforeRequest(details)
    \/ \E message \in DetectedMessages, tab \in TabIds : OnVideoDetectedInPage(message, tab)
    \/ \E s \in Subs : OnGetVideos(s)
    \/ OnInstalled
    \/ Tick
    \/ \E s \in Subs : Construct(s)
    \/ \E s \in Subs : Close(s)

Spec == Init /\ [][Next]_vars

\* the registry owner with its two feeds and the download requests
NextDownload ==
    \/ \E details \in RequestDetails : OnBeforeRequest(details)
    \/ \E message \in DetectedMessages, tab \in TabIds : OnVideoDetectedInPage(message, tab)
    \/ \E message \in DownloadMessages : OnDownloadVideo(message)
    \/ \E i \in 1..Len(downloads) : DownloadResolved(i)
    \/ \E i \in 1..Len(downloads) : DownloadRejected(i, invalidFilename)
    \/ OnInstalled
    \/ Tick

SpecDownload == Init /\ [][NextDownload]_vars

\* one request of InterceptRequests reaches the listener, in a background
\* that holds no record or one record reported by a page, with the side
\* panels closed or open
pageRecord ==
    [url |-> pageHtml, tabId |-> 1, timestamp |-> 0, type |-> "content_script",
     filename |-> getFilenameFromUrl(pageHtml),
     duration |-> 5, dimensions |-> [width |-> 640, height |-> 360]]

InitIntercept ==
    /\ videoUrlStore \in { <<>>, << [key |-> pageHtml, value |-> pageRecord] >> }
    /\ now = 0
    /\ attached \in { {}, Subs }
    /\ inbox = [s \in Subs |-> <<>>]
    /\ unhandled = FALSE
    /\ pull = [s \in Subs |-> IF s \in attached THEN [state |-> "sent", videos |-> <<>>]
                                               ELSE NoPull]
    /\ videos = [s \in Subs |-> <<>>]
    /\ downloads = <<>>
    /\ lastEvent = [kind |-> "start"]
    /\ InitD
    /\ InitP

NextIntercept ==
    \E details \in InterceptRequests :
        /\ lastEvent.kind = "start"
        /\ OnBeforeRequest(details)

SpecIntercept == InitIntercept /\ [][NextIntercept]_vars

\* getFilenameFromUrl on its own, for every locator of DeriveInputs

InitDerive ==
    /\ InitBg
    /\ dLocator \in DeriveInputs
    /\ dName = <<>>
    /\ dPc = "call"
    /\ InitP

Derive ==
    /\ dPc = "call"
    /\ LET r == getFilenameFromUrl(dLocator)
       IN  /\ dName' = r
           /\ dPc' = IF r = Raised THEN "raised" ELSE "returned"
    /\ UNCHANGED <<dLocator, bgVars, pVars>>

NextDerive == Derive

SpecDerive == InitDerive /\ [][NextDerive]_vars

\* the fan-out of the notifications: NumPanels side panels open and close
\* while the two feeds put
Panels == 1..NumPanels

InitNotify ==
    /\ videoUrlStore = <<>>
    /\ now = 0
    /\ attached = {}
    /\ inbox = [s \in Panels |-> <<>>]
    /\ unhandled = FALSE
    /\ pull = [s \in Panels |-> NoPull]
    /\ videos = [s \in Panels |-> <<>>]
    /\ downloads = <<>>
    /\ lastEvent = [kind |-> "start"]
    /\ InitD
    /\ InitP

NextNotify ==
    \/ \E details \in RequestDetails : OnBeforeRequest(details)
    \/ \E message \in DetectedMessages, tab \in TabIds : OnVideoDetectedInPage(message, tab)
    \/ \E s \in Panels : Construct(s)
    \/ \E s \in Panels : Close(s)

SpecNotify == InitNotify /\ [][NextNotify]_vars

\* the readers of the store among the writers: requests of web pages and
\* page reports (first scans and periodic rescans send the same messages)
\* interleaved with the pulls of a side panel and with download requests
OrderRequests == { d \in RequestDetails : d.initiator = siteOrigin }
OrderDownloads == { m \in DownloadMessages : m.filename = Undefined }

NextOrder ==
    \/ \E details \in OrderRequests : OnBeforeRequest(details)
    \/ \E message \in DetectedMessages, tab \in TabIds : OnVideoDetectedInPage(message, tab)
    \/ \E s \in Subs : OnGetVideos(s)
    \/ \E message \in OrderDownloads : OnDownloadVideo(message)
    \/ \E i \in 1..Len(downloads) : DownloadResolved(i)
    \/ \E i \in 1..Len(downloads) : DownloadRejected(i, canceledByUser)
    \/ Tick
    \/ \E s \in Subs : Construct(s)
    \/ \E s \in Subs : Close(s)

SpecOrder == Init /\ [][NextOrder]_vars

\* the same events, at one reading of the clock, with the install and
\* update events of the add-on
NextLifetime ==
    \/ \E details \in OrderRequests : OnBeforeRequest(details)
    \/ \E message \in DetectedMessages, tab \in TabIds : OnVideoDetectedInPage(message, tab)
    \/ \E s \in Subs : OnGetVideos(s)
    \/ \E message \in OrderDownloads : OnDownloadVideo(message)
    \/ \E i \in 1..Len(downloads) : DownloadResolved(i)
    \/ \E i \in 1..Len(downloads) : DownloadRejected(i, canceledByUser)
    \/ OnInstalled
    \/ \E s \in Subs : Construct(s)
    \/ \E s \in Subs : Close(s)

SpecLifetime == Init /\ [][NextLifetime]_vars

\* a download request of the side panel from its dispatch to the promise
\* the caller holds, while requests keep arriving
NextFailure ==
    \/ \E details \in OrderRequests : OnBeforeRequest(details)
    \/ \E message \in DownloadMessages : OnDownloadVideo(message)
    \/ \E i \in 1..Len(downloads) : DownloadResolved(i)
    \/ \E i \in 1..Len(downloads), error \in DownloadErrors : DownloadRejected(i, error)
    \/ \E i \in 1..Len(downloads) : DownloadCallback(i)

SpecFailure == Init /\ [][NextFailure]_vars

\* a side panel that opens, pulls and listens while the two feeds put: the
\* answer to its pull and the notifications travel on channels of their
\* own, and chrome.runtime fixes no order between them
UIRequests == { d \in OrderRequests : d.type = "media" }
UIMessages == { m \in DetectedMessages : m.duration = 5 }

NextUI ==
    \/ \E details \in UIRequests : OnBeforeRequest(details)
    \/ \E message \in UIMessages, tab \in TabIds : OnVideoDetectedInPage(message, tab)
    \/ \E s \in Subs : OnGetVideos(s)
    \/ \E s \in Subs : Construct(s)
    \/ \E s \in Subs : LoadVideos(s)
    \/ \E s \in Subs : LoadVideosCallback(s)
    \/ \E s \in Subs : VideoDetected(s)

SpecUI == Init /\ [][NextUI]_vars

\* the content script of one page: the video elements the page is loaded
\* with, the initial check, the periodic checks, the metadata that loads
\* and the checks the side panel forces
VideoElement(src, currentSrc, sources) ==
    [src |-> src, currentSrc |-> currentSrc, loaded |-> FALSE, tagged |-> FALSE,
     listeners |-> 0, sources |-> sources]
VideoElements ==
    { VideoElement(streamM3u8, streamM3u8, <<>>),
      VideoElement(<<>>, <<>>, <<>>),
      VideoElement(<<>>, <<>>, << upperMp4, <<>> >>),
      VideoElement(<<>>, upperMp4, << upperMp4 >>) }
Pages == SeqsUpTo(VideoElements, MaxVideos)

InitPage ==
    /\ InitBg
    /\ InitD
    /\ dom \in Pages
    /\ sent = <<>>
    /\ force = "none"
    /\ pagePc = "loading"
    /\ mutations = <<>>

NextPage ==
    \/ ContentScriptLoads
    \/ IntervalFires
    \/ \E i \in 1..Len(dom) : LoadedMetadata(i)
    \/ ForceCheckVideos
    \/ OnForceCheckVideos
    \/ ForceCheckCallback

SpecPage == InitPage /\ [][NextPage]_vars

\* the names of the records: requests and page messages whose URL is well
\* formed, written in upper case, without a scheme, or missing
noScheme == <<"x", ".", "t", "e", "s", "t", "/", "c", "l", "i", "p">>
NameRequests ==
    { d \in InterceptRequests :
        /\ d.url \in {upperMp4, pageHtml}
        /\ d.type = "media"
        /\ d.initiator = siteOrigin }
NameMessages ==
    { [action |-> "video_detected_in_page", url |-> u, duration |-> 0,
       dimensions |-> [width |-> 0, height |-> 0]] : u \in {streamM3u8, noScheme, Undefined} }

NextNames ==
    \/ \E details \in NameRequests : OnBeforeRequest(details)
    \/ \E message \in NameMessages, tab \in TabIds : OnVideoDetectedInPage(message, tab)

SpecNames == Init /\ [][NextNames]_vars

\* the content script of a page that changes: video and source elements
\* are added, sources are set and selected, and the observer, the timer and
\* the side panel make it check
WatchElements ==
    { VideoElement(streamM3u8, streamM3u8, <<>>),
      VideoElement(<<>>, <<>>, <<>>) }

InitWatch ==
    /\ InitBg
    /\ InitD
    /\ dom \in SeqsUpTo(WatchElements, 1)
    /\ sent = <<>>
    /\ force = "none"
    /\ pagePc = "loading"
    /\ mutations = <<>>

NextWatch ==
    \/ ContentScriptLoads
    \/ \E v \in WatchElements, node \in {videoNode, wrapperNode} : AddVideoNode(v, node)
    \/ \E i \in 1..Len(dom) : AddSourceNode(i, upperMp4)
    \/ \E node \in {divNode, textNode} : AddOtherNode(node)
    \/ \E i \in 1..Len(dom) : SetSrc(i, streamM3u8)
    \/ \E i \in 1..Len(dom) : SourceSelected(i)
    \/ ObserverCallback

SpecWatch == InitWatch /\ [][NextWatch]_vars

\* the content script of a page whose video elements get their source
\* after they were added: every way checkVideosOnPage is run, and the
\* loadedmetadata listeners
lateElement == VideoElement(<<>>, <<>>, <<>>)

InitListen ==
    /\ InitBg
    /\ InitD
    /\ dom \in SeqsUpTo({lateElement}, 1)
    /\ sent = <<>>
    /\ force = "none"
    /\ pagePc = "loading"
    /\ mutations = <<>>

NextListen ==
    \/ ContentScriptLoads
    \/ IntervalFires
    \/ \E i \in 1..Len(dom) : LoadedMetadata(i)
    \/ ForceCheckVideos
    \/ OnForceCheckVideos
    \/ ForceCheckCallback
    \/ AddVideoNode(lateElement, videoNode)
    \/ \E i \in 1..Len(dom) : SetSrc(i, streamM3u8)
    \/ ObserverCallback

SpecListen == InitListen /\ [][NextListen]_vars

\* the content script and the background together: a video element gets
\* its src set, source elements added and a source selected, the observer
\* and the timer make the content script check, and what it sends is
\* delivered to the background
InitBackstop ==
    /\ InitBg
    /\ InitD
    /\ dom \in SeqsUpTo({lateElement}, 1)
    /\ sent = <<>>
    /\ force = "none"
    /\ pagePc = "loading"
    /\ mutations = <<>>

NextBackstop ==
    \/ ContentScriptLoads
    \/ IntervalFires
    \/ ObserverCallback
    \/ \E i \in 1..Len(dom) : AddSourceNode(i, upperMp4)
    \/ \E i \in 1..Len(dom) : SourceSelected(i)
    \/ \E i \in 1..Len(dom) : SetSrc(i, streamM3u8)
    \/ \E tab \in TabIds : Deliver(tab)

SpecBackstop == InitBackstop /\ [][NextBackstop]_vars

\* the oldest message sent leaves the channel: in SpecBackstop these are
\* the steps of Deliver, which is enabled whenever a message is in flight
Delivered ==
    /\ sent # <<>>
    /\ Head(sent).kind = "message"
    /\ sent' = Tail(sent)

\* the content script runs once the page has loaded, the observer is
\* handed its records at the end of the task that made them, the timer
\* keeps firing and the messages sent arrive
FairBackstop ==
    /\ SpecBackstop
    /\ WF_vars(ContentScriptLoads)
    /\ WF_vars(ObserverCallback)
    /\ WF_vars(IntervalFires)
    /\ WF_sent(Delivered)

\* ================================================================ claims
\* what the get_videos handler answers in the current state
getAll == MapValues(videoUrlStore)

\* the records of a list that carry locator u
RecordsOf(list, u) == SelectSeq(list, LAMBDA v : v.url = u)

OnePerLocator(list) ==
    \A i, j \in 1..Len(list) : list[i].url = list[j].url => i = j

\* the closed set of recognized media suffixes
RecognizedSuffixes == { <<".", "m", "p", "4">>, <<".", "w", "e", "b", "m">>,
                        <<".", "m", "3", "u", "8">>, <<".", "t", "s">> }
Recognized(name) == \E suf \in RecognizedSuffixes : EndsWith(name, suf)

\* the record a feed hands to put
NetRecord(d, t) ==
    [url |-> d.url, tabId |-> d.tabId, timestamp |-> t, type |-> d.type,
     filename |-> getFilenameFromUrl(d.url)]
PageRecord(m, tab, t) ==
    [url |-> m.url, tabId |-> tab, timestamp |-> t, type |-> "content_script",
     filename |-> getFilenameFromUrl(m.url),
     duration |-> m.duration, dimensions |-> m.dimensions]

SelfOriginated(d) == d.initiator = selfOrigin
LiteralCandidate(d) == Recognized(d.url) \/ d.type = "media"
FoldedCandidate(d) == Recognized(ToLowerCase(d.url)) \/ d.type = "media"

\* the last event was a put, of the network feed or of the page feed
NetPut == /\ lastEvent.kind = "onBeforeRequest"
          /\ ~SelfOriginated(lastEvent.details)
          /\ FoldedCandidate(lastEvent.details)
PagePut == lastEvent.kind = "video_detected_in_page"

(* C1. Uniqueness: after any sequence of puts of the two feeds, in any      *)
(* order, the list getAll returns, now or in a response already sent,       *)
(* holds at most one record per locator.                                    *)
Uniqueness ==
    /\ OnePerLocator(getAll)
    /\ \A s \in Subs : OnePerLocator(pull[s].videos)

\* a request rewrote a locator a page had reported, with another locator stored
UniquenessWitness ==
    /\ NetPut
    /\ Len(lastEvent.prior) = 1
    /\ lastEvent.prior[1].type = "content_script"
    /\ Len(getAll) = 2

(* C2. Last-writer-wins: after a put for a locator, the record getAll       *)
(* shows for it is exactly the record of that put, with no field of the     *)
(* record it replaced.                                                      *)
LastWriterWins ==
    /\ NetPut =>
         RecordsOf(getAll, lastEvent.details.url) = << NetRecord(lastEvent.details, now) >>
    /\ PagePut =>
         RecordsOf(getAll, lastEvent.message.url)
             = << PageRecord(lastEvent.message, lastEvent.tab, now) >>

\* a request replaced a page's record that carried a duration and dimensions
LastWriterWinsWitness ==
    /\ NetPut
    /\ Len(lastEvent.prior) = 1
    /\ lastEvent.prior[1].type = "content_script"
    /\ lastEvent.prior[1].duration = 5
    /\ DOMAIN RecordsOf(getAll, lastEvent.details.url)[1]
           = {"url", "tabId", "timestamp", "type", "filename"}

(* C3. Filename totality: for every locator string derive returns without   *)
(* raising, and the name is non-empty and ends with a recognized suffix.    *)
FilenameTotality ==
    /\ dPc # "raised"
    /\ dPc = "returned" => dName # <<>> /\ Recognized(dName)

\* derive has returned for a query-only string, which does not parse
FilenameTotalityWitness ==
    /\ dPc = "returned"
    /\ dLocator = <<"?", "t", "o", "k", "e", "n", "=", "9">>
    /\ dName = <<"v", "i", "d", "e", "o", ".", "m", "p", "4">>

\* the reference function: the part of the parsed path after its last "/",
\* cut at the first "?", "video" when that is empty, ".mp4" appended unless
\* a recognized suffix ends it
RefDerive(locator) ==
    LET u == NewURL(locator)
        path == IF u.threw THEN <<>> ELSE u.pathname
        slashes == { i \in 1..Len(path) : path[i] = "/" }
        lastSlash == IF slashes = {} THEN 0
                     ELSE CHOOSE i \in slashes : \A j \in slashes : j <= i
        segment == SubSeq(path, lastSlash + 1, Len(path))
        marks == { i \in 1..Len(segment) : segment[i] = "?" }
        cut == IF marks = {} THEN Len(segment)
               ELSE (CHOOSE i \in marks : \A j \in marks : i <= j) - 1
        bare == SubSeq(segment, 1, cut)
        base == IF bare = <<>> THEN <<"v", "i", "d", "e", "o">> ELSE bare
    IN  IF Recognized(base) THEN base ELSE base \o <<".", "m", "p", "4">>

clipToken == siteOrigin \o <<"/", "a", "/", "c", "l", "i", "p", "?", "t", "o", "k", "e", "n", "=", "9">>

(* C4. derive(locator) equals the reference function; in particular         *)
(* derive("https://x.test/a/clip?token=9") = "clip.mp4" and                 *)
(* derive("https://x.test/") = "video.mp4".                                 *)
DeriveIsReference ==
    dPc = "returned" =>
        /\ dName = RefDerive(dLocator)
        /\ dLocator = clipToken => dName = <<"c", "l", "i", "p", ".", "m", "p", "4">>
        /\ dLocator = siteOrigin \o <<"/">> => dName = <<"v", "i", "d", "e", "o", ".", "m", "p", "4">>

\* derive has returned "clip.mp4" for https://x.test/a/clip?token=9
DeriveIsReferenceWitness ==
    /\ dPc = "returned"
    /\ dLocator = clipToken
    /\ dName = <<"c", "l", "i", "p", ".", "m", "p", "4">>

\* what registering and rejecting the request of a step do
Registers(d) ==
    /\ ValuesFor(videoUrlStore', d.url) = << NetRecord(d, now) >>
    /\ \A s \in attached :
          inbox'[s] = Append(inbox[s], [action |-> "video_detected", video |-> NetRecord(d, now)])
Rejects == UNCHANGED <<videoUrlStore, inbox>>

(* C5, as stated. A request that is not self-originated is registered if    *)
(* and only if its locator ends with one of .mp4, .webm, .m3u8, .ts or its  *)
(* type hint is media; a rejected request leaves the registry unchanged     *)
(* and sends no notification.                                               *)
SuffixClassificationAsStated ==
    [][ (lastEvent'.kind = "onBeforeRequest" /\ ~SelfOriginated(lastEvent'.details))
          => IF LiteralCandidate(lastEvent'.details)
             THEN Registers(lastEvent'.details)
             ELSE Rejects ]_vars

(* C5, amended. A request that is not self-originated is registered if and  *)
(* only if its locator, compared without regard to case, ends with one of   *)
(* .mp4, .webm, .m3u8, .ts or its type hint is media; a rejected request    *)
(* leaves the registry unchanged and sends no notification.                 *)
SuffixClassification ==
    [][ (lastEvent'.kind = "onBeforeRequest" /\ ~SelfOriginated(lastEvent'.details))
          => IF FoldedCandidate(lastEvent'.details)
             THEN Registers(lastEvent'.details)
             ELSE Rejects ]_vars

\* the request for https://x.test/A.MP4, not typed media, was registered
SuffixClassificationWitness ==
    /\ lastEvent.kind = "onBeforeRequest"
    /\ lastEvent.details.url = upperMp4
    /\ lastEvent.details.type = "xmlhttprequest"
    /\ lastEvent.details.initiator = siteOrigin
    /\ attached # {}
    /\ ValuesFor(videoUrlStore, upperMp4) = << NetRecord(lastEvent.details, now) >>

(* C6. Self-origin exclusion: a request whose origin is the add-on itself   *)
(* writes nothing to the registry and sends no notification, whatever its   *)
(* suffix or type hint.                                                     *)
SelfOriginExclusion ==
    [][ (lastEvent'.kind = "onBeforeRequest" /\ SelfOriginated(lastEvent'.details))
          => Rejects ]_vars

\* the add-on requested stream.m3u8 as media with a side panel open
SelfOriginExclusionWitness ==
    /\ lastEvent.kind = "onBeforeRequest"
    /\ lastEvent.details.initiator = selfOrigin
    /\ lastEvent.details.url = streamM3u8
    /\ lastEvent.details.type = "media"
    /\ attached # {}
    /\ videoUrlStore = <<>>
    /\ \A s \in Subs : inbox[s] = <<>>

(* C7. Reset clears state: right after the install/update event getAll      *)
(* returns an empty sequence, whatever was put before.                      *)
ResetClears == lastEvent.kind = "onInstalled" => getAll = <<>>

\* the event came when the registry held records
ResetClearsWitness ==
    /\ lastEvent.kind = "onInstalled"
    /\ lastEvent.size = 2

(* C8. Download fallback naming: a download request whose suggested name is *)
(* "" or undefined passes derive(locator) as the file name to the platform, *)
(* so both pass the same name.                                              *)
FallbackNaming ==
    \A i \in 1..Len(downloads) :
        Falsy(downloads[i].message.filename)
            => downloads[i].options.filename = RefDerive(downloads[i].message.url)

\* a request with the empty name was dispatched under the derived name
FallbackNamingWitness ==
    \E i \in 1..Len(downloads) :
        /\ downloads[i].message.filename = <<>>
        /\ downloads[i].message.url = pageHtml
        /\ downloads[i].options.filename = <<"p", "a", "g", "e", ".", "h", "t", "m", "l", ".", "m", "p", "4">>

\* a file name chrome.downloads.download takes: a non-empty relative path
\* without back-references
ValidName(name) ==
    /\ ~Falsy(name)
    /\ Head(name) # "/"
    /\ \A seg \in { Split(name, "/")[i] : i \in 1..Len(Split(name, "/")) } : seg # <<".", ".">>

(* C9, as stated. The suggested name is passed to the platform only when it *)
(* is non-empty and valid; for every other suggested name the name passed   *)
(* is derive(locator).                                                      *)
SuggestedNameAsStated ==
    \A i \in 1..Len(downloads) :
        LET m == downloads[i].message
        IN  downloads[i].options.filename
                = IF ValidName(m.filename) THEN m.filename ELSE getFilenameFromUrl(m.url)

(* C9, amended. The suggested name is passed to the platform whenever it is *)
(* non-empty, valid or not; the name passed is derive(locator) only when    *)
(* the suggested name is empty or absent.                                   *)
SuggestedName ==
    \A i \in 1..Len(downloads) :
        LET m == downloads[i].message
        IN  /\ ~Falsy(m.filename) => downloads[i].options.filename = m.filename
            /\ Falsy(m.filename) => downloads[i].options.filename = getFilenameFromUrl(m.url)

\* a name with a back-reference was passed on as it came
SuggestedNameWitness ==
    \E i \in 1..Len(downloads) :
        /\ downloads[i].message.filename = backRef
        /\ ~ValidName(backRef)
        /\ downloads[i].options.filename = backRef

(* C10. Best-effort notify: a put with no side panel attached stores the    *)
(* record, raises no error in the background and queues nothing: a panel    *)
(* that attaches later finds no notification waiting, and getAll holds the  *)
(* record.                                                                  *)
BestEffortNotify ==
    /\ ~unhandled
    /\ \A s \in Subs \ attached : inbox[s] = <<>>
    /\ lastEvent.kind = "construct" => inbox[lastEvent.sub] = <<>>
    /\ (NetPut /\ attached = {}) =>
          RecordsOf(getAll, lastEvent.details.url) = << NetRecord(lastEvent.details, now) >>
    /\ (PagePut /\ attached = {}) =>
          RecordsOf(getAll, lastEvent.message.url)
              = << PageRecord(lastEvent.message, lastEvent.tab, now) >>

\* a panel opened after a put made with none attached: its pull was answered
\* with the record and no notification waits for it
BestEffortNotifyWitness ==
    \E s \in attached :
        /\ lastEvent.kind = "get_videos"
        /\ pull[s].state = "answered"
        /\ Len(pull[s].videos) = 1
        /\ inbox[s] = <<>>
        /\ getAll = pull[s].videos

\* the record the put of a step stores, when the step is a put
PutOfStep ==
    IF lastEvent'.kind = "onBeforeRequest"
    THEN NetRecord(lastEvent'.details, now)
    ELSE PageRecord(lastEvent'.message, lastEvent'.tab, now)
IsPutStep ==
    \/ /\ lastEvent'.kind = "onBeforeRequest"
       /\ ~SelfOriginated(lastEvent'.details)
       /\ FoldedCandidate(lastEvent'.details)
    \/ lastEvent'.kind = "video_detected_in_page"

(* C11. Every put, of either feed and also for a locator already stored,    *)
(* sends exactly one notification that carries the record just stored to    *)
(* every side panel attached at that moment and to no other, and the        *)
(* record is in the store when the notification is in flight.               *)
NotifyOnPut ==
    [][ IsPutStep =>
          /\ \A s \in attached :
                inbox'[s] = Append(inbox[s], [action |-> "video_detected", video |-> PutOfStep])
          /\ \A s \in DOMAIN inbox \ attached : inbox'[s] = inbox[s]
          /\ ValuesFor(videoUrlStore', PutOfStep.url) = << PutOfStep >> ]_vars

\* a put for a locator already stored has notified two open side panels
NotifyOnPutWitness ==
    /\ NetPut
    /\ Len(lastEvent.prior) = 1
    /\ attached = {1, 2}
    /\ \A s \in attached :
          inbox[s] = << [action |-> "video_detected",
                         video |-> NetRecord(lastEvent.details, now)] >>

(* C12. Ordering: whatever the interleaving of requests, page reports       *)
(* (rescans included), pulls and downloads, each event either is a put for  *)
(* a locator, after which the store holds exactly the record of that put    *)
(* for it, or leaves the record of the locator as it was; a pull is         *)
(* answered with exactly the records the store holds.  So a reader gets,    *)
(* for every locator, the whole record of the last put made for it.         *)
Ordering ==
    [][ /\ \A u \in Locators :
             IF IsPutStep /\ PutOfStep.url = u
             THEN ValuesFor(videoUrlStore', u) = << PutOfStep >>
             ELSE ValuesFor(videoUrlStore', u) = ValuesFor(videoUrlStore, u)
        /\ lastEvent'.kind = "get_videos" =>
             \A u \in Locators :
                RecordsOf(pull'[lastEvent'.sub].videos, u) = ValuesFor(videoUrlStore', u) ]_vars

\* a side panel read the record a page had put; then, with a download
\* pending, a request put the same locator again and the store holds the
\* record of the request
OrderingWitness ==
    \E s \in attached :
        /\ NetPut
        /\ Len(lastEvent.prior) = 1
        /\ lastEvent.prior[1].type = "content_script"
        /\ pull[s].state = "answered"
        /\ RecordsOf(pull[s].videos, lastEvent.details.url) = lastEvent.prior
        /\ \E i \in 1..Len(downloads) : downloads[i].state = "pending"
        /\ RecordsOf(getAll, lastEvent.details.url) = << NetRecord(lastEvent.details, now) >>

\* the locators a store holds
LocatorsOf(m) == { m[i].key : i \in 1..Len(m) }

(* C13. Reset race: in every interleaving of resets and puts, a reset       *)
(* leaves no locator, a put adds its locator with its record, and nothing   *)
(* else changes the set of locators; so a put ordered after a reset is in   *)
(* getAll afterwards, and what was put before the reset and not again is    *)
(* absent.                                                                  *)
ResetRace ==
    [][ /\ LocatorsOf(videoUrlStore') =
              IF lastEvent'.kind = "onInstalled" THEN {}
              ELSE IF IsPutStep THEN LocatorsOf(videoUrlStore) \cup {PutOfStep.url}
              ELSE LocatorsOf(videoUrlStore)
        /\ IsPutStep => RecordsOf(MapValues(videoUrlStore'), PutOfStep.url) = << PutOfStep >> ]_vars

\* a side panel read two records; after a reset a request put one locator
\* again: getAll holds the record of that put and nothing else
ResetRaceWitness ==
    \E s \in attached :
        /\ NetPut
        /\ pull[s].state = "answered"
        /\ Len(pull[s].videos) = 2
        /\ getAll = << NetRecord(lastEvent.details, now) >>

(* C14. Records are removed only by a full reset: every event other than    *)
(* the install/update event (a put, also one whose notification finds no    *)
(* side panel, a pull, a download request, a download completion) keeps     *)
(* every locator the store held, so between two resets the set of locators  *)
(* never shrinks.                                                           *)
OnlyResetRemoves ==
    [][ lastEvent'.kind # "onInstalled" =>
          /\ LocatorsOf(videoUrlStore) \subseteq LocatorsOf(videoUrlStore')
          /\ Len(videoUrlStore) <= Len(videoUrlStore') ]_vars

\* a download of a stored locator completed with no side panel open and
\* the two records put are still there
OnlyResetRemovesWitness ==
    /\ lastEvent.kind = "download_resolved"
    /\ attached = {}
    /\ downloads[lastEvent.index].options.url \in LocatorsOf(videoUrlStore)
    /\ Len(getAll) = 2

(* C15. Download failure: when chrome.downloads.download fails, the caller  *)
(* is answered success = false with the cause of the failure, the platform  *)
(* call is made once for the request (no retry), the background raises no   *)
(* error, and the download call of the side panel then fails with that      *)
(* cause.  That the background goes on taking events is the state           *)
(* DownloadFailureWitness reaches.                                          *)
DownloadFailure ==
    /\ ~unhandled
    /\ \A i \in 1..Len(downloads) : downloads[i].attempts = 1
    /\ lastEvent.kind = "download_rejected" =>
          /\ downloads[lastEvent.index].state = "responded"
          /\ downloads[lastEvent.index].response
                = [success |-> FALSE, error |-> lastEvent.error.message]
    /\ \A i \in 1..Len(downloads) :
          (downloads[i].state = "settled" /\ ~downloads[i].response.success) =>
              downloads[i].outcome
                = [settled |-> "rejected", value |-> downloads[i].response.error]

\* the save dialog was cancelled, the side panel's call failed with that
\* cause, and the background then registered a request
DownloadFailureWitness ==
    /\ NetPut
    /\ \E i \in 1..Len(downloads) :
          /\ downloads[i].state = "settled"
          /\ downloads[i].response = [success |-> FALSE, error |-> canceledByUser.message]
          /\ downloads[i].outcome = [settled |-> "rejected", value |-> canceledByUser.message]
          /\ downloads[i].attempts = 1

(* C16. Every call of chrome.downloads.download asks the user where to      *)
(* save: its options carry saveAs = true, whatever the request; no          *)
(* download is dispatched as a silent save.                                 *)
PromptForLocation ==
    \A i \in 1..Len(downloads) : downloads[i].options.saveAs = TRUE

\* a request that suggests a name was dispatched with saveAs = true
PromptForLocationWitness ==
    /\ lastEvent.kind = "download_video"
    /\ lastEvent.message.filename = myMp4
    /\ \E i \in 1..Len(downloads) :
          /\ downloads[i].message = lastEvent.message
          /\ downloads[i].state = "pending"
          /\ downloads[i].options
                = [url |-> lastEvent.message.url, filename |-> myMp4, saveAs |-> TRUE]

(* C17. getAll returns a point-in-time copy: the answer to a pull is        *)
(* exactly the sequence of the records stored when the pull is handled, the *)
(* pull leaves the store as it is, and a put or a reset handled later does  *)
(* not change an answer already given.                                      *)
PointInTimeCopy ==
    [][ /\ lastEvent'.kind = "get_videos" =>
             /\ pull'[lastEvent'.sub] = [state |-> "answered", videos |-> MapValues(videoUrlStore)]
             /\ videoUrlStore' = videoUrlStore
        /\ (IsPutStep \/ lastEvent'.kind = "onInstalled") =>
             \A s \in Subs : pull[s].state = "answered" => pull'[s] = pull[s] ]_vars

\* a pull was answered with two records; a reset came later and the answer
\* still holds the two records
PointInTimeCopyWitness ==
    \E s \in attached :
        /\ lastEvent.kind = "onInstalled"
        /\ pull[s].state = "answered"
        /\ Len(pull[s].videos) = 2
        /\ getAll = <<>>

\* the locators a side panel lists
Listed(s) == { videos[s][i].url : i \in 1..Len(videos[s]) }

\* nothing is in flight to side panel s: its pull is settled and its
\* notifications are delivered
Quiescent(s) == pull[s].state = "idle" /\ inbox[s] = <<>>

(* C18, as stated. A side panel that attaches, pulls and then receives      *)
(* notifications misses nothing: under every interleaving of puts, the      *)
(* answer to the pull and the deliveries of the notifications, once         *)
(* everything in flight is delivered its list holds every locator of the    *)
(* store.                                                                   *)
NoMissedHistory ==
    \A s \in attached : Quiescent(s) => LocatorsOf(videoUrlStore) \subseteq Listed(s)

\* the video elements of a page whose URL is known
Resolvable(d) == { i \in 1..Len(d) : d[i].currentSrc # <<>> \/ d[i].src # <<>> }
UrlOf(v) == IF v.currentSrc # <<>> THEN v.currentSrc ELSE v.src

\* the source elements of a page whose URL is known, as pairs of indices
ResolvableSources(d) ==
    { <<i, j>> \in (1..MaxVideos) \X (1..2) :
        i <= Len(d) /\ j <= Len(d[i].sources) /\ d[i].sources[j] # <<>> }

(* C19. A force_check_videos request delivered to a page runs one full scan *)
(* of the page, which sends a detection for every video element whose URL   *)
(* is known, and then answers the requester: everything the scan sends is   *)
(* sent before the answer, and the answer is the last thing sent.           *)
ForceRescan ==
    [][ lastEvent'.kind = "force_check_videos" =>
          LET new == SubSeq(sent', Len(sent) + 1, Len(sent'))
          IN  /\ SubSeq(sent', 1, Len(sent)) = sent
              /\ Len(new) >= 1
              /\ new[Len(new)] = [kind |-> "response", body |-> [status |-> "checked"]]
              /\ \A k \in 1..(Len(new) - 1) : new[k].kind = "message"
              /\ Len(new) - 1 = Cardinality(Resolvable(dom))
                                  + Cardinality(ResolvableSources(dom))
              /\ \A i \in Resolvable(dom) :
                    \E k \in 1..(Len(new) - 1) :
                        /\ new[k].body.action = "video_detected_in_page"
                        /\ new[k].body.url = UrlOf(dom[i]) ]_vars

\* a forced check of a page with two video elements, the first without a
\* URL, has sent the detection of the second and then the answer
ForceRescanWitness ==
    /\ lastEvent.kind = "force_check_videos"
    /\ Len(dom) = 2
    /\ dom[1].src = <<>> /\ dom[1].currentSrc = <<>> /\ dom[1].sources = <<>>
    /\ dom[2].src = streamM3u8
    /\ Len(sent) >= 2
    /\ sent[Len(sent)].kind = "response"
    /\ sent[Len(sent) - 1].kind = "message"
    /\ sent[Len(sent) - 1].body.url = streamM3u8
    /\ Len(sent) = lastEvent.before + 2

\* the feed a record names: the page feed writes the type content_script,
\* the network feed the resource type of the request, which is never that
sourceKind(record) ==
    IF record.type = "content_script" THEN "PageContext" ELSE "NetworkLayer"

\* the feeds named by the records stored for locator u in store m
KindsOf(m, u) == { sourceKind(r) : r \in { ValuesFor(m, u)[i] : i \in 1..Len(ValuesFor(m, u)) } }

(* C20. For every record of the store, sourceKind names the feed that made  *)
(* the last put for its locator: a put of the network feed leaves           *)
(* NetworkLayer for its locator, a put of the page feed leaves PageContext, *)
(* and no other event changes what the record of a locator names.           *)
SourceKindOfLastPut ==
    [][ \A u \in Locators :
          IF IsPutStep /\ PutOfStep.url = u
          THEN KindsOf(videoUrlStore', u) =
                 { IF lastEvent'.kind = "onBeforeRequest" THEN "NetworkLayer"
                                                          ELSE "PageContext" }
          ELSE KindsOf(videoUrlStore', u) = KindsOf(videoUrlStore, u) ]_vars

\* a page reported a locator a request had registered: its record now
\* names the page feed
SourceKindOfLastPutWitness ==
    /\ PagePut
    /\ Len(lastEvent.prior) = 1
    /\ sourceKind(lastEvent.prior[1]) = "NetworkLayer"
    /\ KindsOf(videoUrlStore, lastEvent.message.url) = {"PageContext"}

(* C21. Every record of the store has a filename equal to the name derived  *)
(* from its URL, hence non-empty and ending with a recognized extension,    *)
(* whichever feed wrote it, also when a page message has a malformed URL    *)
(* or none.                                                                 *)
DisplayNameDerived ==
    \A i \in 1..Len(getAll) :
        /\ getAll[i].filename = RefDerive(getAll[i].url)
        /\ getAll[i].filename # <<>>
        /\ Recognized(getAll[i].filename)

\* the store holds the record of a page message without a URL, named
\* video.mp4, and the record of a request for A.MP4, named A.MP4.mp4
DisplayNameDerivedWitness ==
    /\ RecordsOf(getAll, upperMp4) # <<>>
    /\ RecordsOf(getAll, upperMp4)[1].filename
          = <<"A", ".", "M", "P", "4", ".", "m", "p", "4">>
    /\ RecordsOf(getAll, Undefined) # <<>>
    /\ RecordsOf(getAll, Undefined)[1].filename
          = <<"v", "i", "d", "e", "o", ".", "m", "p", "4">>
    /\ RecordsOf(getAll, noScheme) # <<>>

\* a step that runs checkVideosOnPage, and the messages it sends
IsScanStep == lastEvent'.kind \in {"contentScript", "interval", "mutation", "force_check_videos"}
ScanMessages ==
    SelectSeq(SubSeq(sent', Len(sent) + 1, Len(sent')), LAMBDA e : e.kind = "message")

\* the duration and dimensions known of the media at URL u in page d: those
\* of a video element that plays u and has its metadata, 0 otherwise
KnownOf(d, u) ==
    IF \E i \in 1..Len(d) : UrlOf(d[i]) = u /\ d[i].loaded
    THEN [duration |-> 5, dimensions |-> [width |-> 640, height |-> 360]]
    ELSE [duration |-> 0, dimensions |-> [width |-> 0, height |-> 0]]

DetectionBody(u, known) ==
    [action |-> "video_detected_in_page", url |-> u,
     duration |-> known.duration, dimensions |-> known.dimensions]

(* C22, as stated. One scan sends a detection for every video element and   *)
(* every nested source element whose URL is known at the time of the scan   *)
(* and nothing for an element whose URL is not known; each detection is a   *)
(* video_detected_in_page message with the URL and the duration and         *)
(* dimensions known at that time, or 0 when they are not known.             *)
ScanEmitsKnown ==
    [][ IsScanStep =>
          /\ Len(ScanMessages) = Cardinality(Resolvable(dom))
                                   + Cardinality(ResolvableSources(dom))
          /\ { ScanMessages[k].body : k \in 1..Len(ScanMessages) }
                = { DetectionBody(UrlOf(dom[i]), KnownOf(dom, UrlOf(dom[i]))) :
                       i \in Resolvable(dom) }
                  \cup { DetectionBody(dom[p[1]].sources[p[2]],
                                       KnownOf(dom, dom[p[1]].sources[p[2]])) :
                            p \in ResolvableSources(dom) } ]_vars

\* the messages a step adds to those the content script has sent
NewlySent == SubSeq(sent', Len(sent) + 1, Len(sent'))

(* C23. However often and for whatever reason checkVideosOnPage runs        *)
(* (content script load, observer callback, interval, force_check_videos), *)
(* a video element never has more than one loadedmetadata listener: an      *)
(* element that no scan has seen has none and is not tagged, an element a   *)
(* scan has seen is tagged and has exactly one, also when it had no URL at  *)
(* that scan. When the metadata of an element with a URL loads, exactly one *)
(* detection is sent, carrying that URL and the loaded duration and size.   *)
OneCompletionListener ==
    [][ /\ \A i \in 1..Len(dom') :
              /\ dom'[i].listeners <= 1
              /\ dom'[i].tagged <=> (dom'[i].listeners = 1)
        /\ IsScanStep =>
              \A i \in 1..Len(dom') : dom'[i].tagged /\ dom'[i].listeners = 1
        /\ lastEvent'.kind = "loadedmetadata" =>
              LET i == lastEvent'.index
              IN  /\ UrlOf(dom[i]) # <<>>
                  /\ NewlySent
                       = << [kind |-> "message",
                             body |-> DetectionBody(UrlOf(dom[i]),
                                         [duration |-> 5,
                                          dimensions |-> [width |-> 640, height |-> 360]])] >> ]_vars

\* two video elements that had no URL when they were added, each scanned
\* several times (the side panel's forced check among the scans), each
\* with one listener; the src of the first was set later and the
\* listener has just sent its detection
OneCompletionListenerWitness ==
    /\ lastEvent.kind = "loadedmetadata"
    /\ lastEvent.index = 1
    /\ Len(dom) = 2
    /\ \A i \in 1..2 : dom[i].tagged /\ dom[i].listeners = 1
    /\ dom[1].src = streamM3u8 /\ dom[1].loaded
    /\ dom[2].src = <<>>
    /\ force = "answered"
    /\ Len(sent) >= 4
    /\ sent[Len(sent)].body.duration = 5

\* a step of the MutationObserver callback, the batch it was handed, and
\* whether the step ran checkVideosOnPage
IsObserverStep == mutations # <<>> /\ mutations' = <<>>
ObserverScanned ==
    /\ lastEvent'.kind = "mutation"
    /\ NewlySent = checkVideosOnPage(dom).emitted
    /\ dom' = checkVideosOnPage(dom).dom
ObserverIgnored ==
    /\ lastEvent'.kind = "mutationsIgnored"
    /\ sent' = sent
    /\ dom' = dom

\* a record of a video element added, or of an element added that
\* contains one
AddsVideo(r) ==
    \E n \in 1..Len(r.addedNodes) :
        r.addedNodes[n] \in {videoNode, wrapperNode}
\* a record of a source element added to a video element
AddsSource(r) ==
    /\ r.target = "VIDEO"
    /\ \E n \in 1..Len(r.addedNodes) : r.addedNodes[n] = sourceNode
\* a record of a change of the src attribute of a video element
ChangesSrc(r) ==
    r.type = "attributes" /\ r.target = "VIDEO" /\ r.attributeName = "src"

ScanUrls(d) ==
    { UrlOf(d[i]) : i \in Resolvable(d) }
        \cup { d[p[1]].sources[p[2]] : p \in ResolvableSources(d) }
InFlight(u) == \E k \in 1..Len(sent) : sent[k].kind = "message" /\ sent[k].body.url = u

(* C25. Under FairBackstop (the timer keeps firing, the messages sent are   *)
(* delivered), whenever the page holds a video or source element with URL   *)
(* u, a detection for u is eventually sent and the store eventually holds a *)
(* record for u; this also holds for URLs the observer is not told of (a    *)
(* source element added to a video element, a source the browser selects).  *)
BackstopLiveness ==
    \A u \in {streamM3u8, upperMp4} :
        /\ (u \in ScanUrls(dom) /\ ~MapHas(videoUrlStore, u))
               ~> (InFlight(u) \/ MapHas(videoUrlStore, u))
        /\ (u \in ScanUrls(dom)) ~> MapHas(videoUrlStore, u)

\* the page has had one video element from the start and its src was never
\* set, so the observer has run no scan; a source element was added to it
\* and selected, and the record of its URL is in the store
BackstopLivenessWitness ==
    /\ Len(dom) = 1
    /\ dom[1].src = <<>>
    /\ dom[1].currentSrc = upperMp4
    /\ lastEvent.kind = "video_detected_in_page"
    /\ lastEvent.message.url = upperMp4
    /\ MapHas(videoUrlStore, upperMp4)
    /\ ValuesFor(videoUrlStore, upperMp4)[1].type = "content_script"

\* a download has been handed to chrome.downloads.download and its promise
\* has not settled
Pending(i) == downloads[i].state = "pending"
SomePending == \E i \in 1..Len(downloads) : Pending(i)

(* C26. While a call of chrome.downloads.download is awaited the listeners  *)
(* go on running: a request or a page report handled in that time stores    *)
(* its record and notifies as at any other time, a get_videos handled in    *)
(* that time is answered with the values stored, none of them touches the   *)
(* download, and the step that settles the call is the one that sends the   *)
(* response of the download.                                                *)
PendingDoesNotBlock ==
    [][ SomePending =>
          /\ IsPutStep =>
                /\ ValuesFor(videoUrlStore', PutOfStep.url) = << PutOfStep >>
                /\ \A s \in attached :
                      inbox'[s] = Append(inbox[s],
                                     [action |-> "video_detected", video |-> PutOfStep])
                /\ downloads' = downloads
          /\ lastEvent'.kind = "get_videos" =>
                /\ pull'[lastEvent'.sub]
                      = [state |-> "answered", videos |-> MapValues(videoUrlStore)]
                /\ downloads' = downloads
          /\ lastEvent'.kind \in {"download_resolved", "download_rejected"} =>
                LET i == lastEvent'.index
                IN  /\ Pending(i)
                    /\ downloads'[i].state = "responded"
                    /\ downloads'[i].response.success
                          = (lastEvent'.kind = "download_resolved")
                    /\ \A j \in 1..Len(downloads) \ {i} : downloads'[j] = downloads[j]
          /\ \A i \in 1..Len(downloads) :
                (Pending(i) /\ ~Pending(i)') =>
                    (lastEvent'.kind \in {"download_resolved", "download_rejected"}
                       /\ lastEvent'.index = i) ]_vars

\* a download was dispatched and is still awaited, and the last event, a
\* get_videos, was answered with the two records stored
PendingDoesNotBlockWitness ==
    /\ SomePending
    /\ lastEvent.kind = "get_videos"
    /\ Len(pull[lastEvent.sub].videos) = 2
    /\ \A k \in 1..2 : pull[lastEvent.sub].videos[k].timestamp = 1
    /\ now = 1

\* sendResponse has been called for download i, and the two responses the
\* branch can send
Answered(d) == "response" \in DOMAIN d
SuccessResponse(r) ==
    /\ DOMAIN r = {"success", "downloadId"}
    /\ r.success = TRUE
FailureResponse(r) ==
    /\ DOMAIN r = {"success", "error"}
    /\ r.success = FALSE

(* C27. A download request is answered once: no response is sent while     *)
(* chrome.downloads.download is awaited, the step in which the call         *)
(* resolves sends success = true with the download id, the step in which it *)
(* rejects sends success = false with the error, every response is exactly  *)
(* one of the two, and a response once sent is never followed by another.   *)
OneResponse ==
    [][ /\ \A i \in 1..Len(downloads') :
              IF downloads'[i].state = "pending"
              THEN ~Answered(downloads'[i])
              ELSE /\ Answered(downloads'[i])
                   /\ SuccessResponse(downloads'[i].response)
                         \/ FailureResponse(downloads'[i].response)
        /\ \A i \in 1..Len(downloads) :
              Answered(downloads[i]) =>
                  /\ Answered(downloads'[i])
                  /\ downloads'[i].response = downloads[i].response
        /\ lastEvent'.kind = "download_resolved" =>
              downloads'[lastEvent'.index].response
                 = [success |-> TRUE, downloadId |-> lastEvent'.index]
        /\ lastEvent'.kind = "download_rejected" =>
              downloads'[lastEvent'.index].response
                 = [success |-> FALSE, error |-> lastEvent'.error.message] ]_vars

\* the side panel's callback has run with the one response of a download
\* that succeeded
OneResponseWitness ==
    /\ lastEvent.kind = "downloadCallback"
    /\ downloads[lastEvent.index].state = "settled"
    /\ downloads[lastEvent.index].response = [success |-> TRUE, downloadId |-> lastEvent.index]
    /\ downloads[lastEvent.index].outcome.settled = "resolved"

\* a step of the download_video branch or of its .then or .catch
IsDownloadStep ==
    lastEvent'.kind \in {"download_video", "download_resolved", "download_rejected"}

(* C28. No step of a download, neither the dispatch nor the success nor the *)
(* failure, changes the store or sends a video_detected message, and the    *)
(* dispatch calls chrome.downloads.download for the URL of the request      *)
(* whether or not the store holds a record for that URL.                    *)
DownloadLeavesStore ==
    [][ IsDownloadStep =>
          /\ videoUrlStore' = videoUrlStore
          /\ inbox' = inbox
          /\ lastEvent'.kind = "download_video" =>
                /\ Len(downloads') = Len(downloads) + 1
                /\ downloads'[Len(downloads')].state = "pending"
                /\ downloads'[Len(downloads')].attempts = 1
                /\ downloads'[Len(downloads')].options.url = lastEvent'.message.url ]_vars

\* a side panel is attached, the store holds a record, and a download of a
\* URL the store does not hold has just been dispatched
DownloadLeavesStoreWitness ==
    /\ lastEvent.kind = "download_video"
    /\ attached # {}
    /\ Len(getAll) = 1
    /\ ~MapHas(videoUrlStore, lastEvent.message.url)
    /\ downloads[Len(downloads)].state = "pending"
    /\ downloads[Len(downloads)].options.url = lastEvent.message.url

(* C29. The list of a side panel holds at most one video per URL, whatever  *)
(* answers to get_videos and video_detected messages it has taken and in    *)
(* whatever order.                                                          *)
ListUniqueness ==
    \A s \in Subs : OnePerLocator(videos[s])

\* the callback of loadVideos has run and the listener has just taken a
\* message; the list holds two videos, of two URLs, one of them stored
\* again since and no longer the record of the store
ListUniquenessWitness ==
    \E s \in attached :
        /\ lastEvent = [kind |-> "video_detected", sub |-> s]
        /\ Len(videos[s]) = 2
        /\ videos[s][1].url # videos[s][2].url
        /\ pull[s].state = "idle"
        /\ \E i \in 1..2 : ValuesFor(videoUrlStore, videos[s][i].url) # << videos[s][i] >>

\* the entries of the list of side panel s for URL u
EntriesFor(list, u) == SelectSeq(list, LAMBDA v : v.url = u)

(* C30. When the listener takes a video_detected message for a URL its list *)
(* already holds, the list stays as it is: the entry is kept and the video  *)
(* of the message is dropped. The entry of a URL in the list changes only   *)
(* in a step of the callback of loadVideos, which puts the answer to        *)
(* get_videos in the place of the whole list.                               *)
KeepListedEntry ==
    [][ \A s \in Subs :
          /\ ( /\ lastEvent' = [kind |-> "video_detected", sub |-> s]
               /\ Head(inbox[s]).video.url \in Listed(s) )
                 => videos'[s] = videos[s]
          /\ (\E u \in Listed(s) : EntriesFor(videos'[s], u) # EntriesFor(videos[s], u))
                 => /\ lastEvent' = [kind |-> "loadVideosCallback", sub |-> s]
                    /\ videos'[s] = pull[s].videos ]_vars

\* the store holds one URL, stored by a request and then again by a page
\* report; the list took the first record, the listener has just taken the
\* message of the second, and the list still holds the first
KeepListedEntryWitness ==
    \E s \in attached :
        /\ lastEvent = [kind |-> "video_detected", sub |-> s]
        /\ inbox[s] = <<>>
        /\ Len(getAll) = 1
        /\ Len(videos[s]) = 1
        /\ videos[s][1].url = getAll[1].url
        /\ videos[s][1].type = "media"
        /\ getAll[1].type = "content_script"

====
